---- MODULE Spec2Model ----
(***************************************************************************)
(* A model of the flat-C binding shims of opensubdiv-petite-sys (c-api/).  *)
(*                                                                         *)
(* The shim is a library of independent extern "C" functions, so the model *)
(* is a caller session: the state is what a caller can observe (the heap   *)
(* of native objects behind the handles, the caller's buffers, the record  *)
(* of the last call and what it did), and there is one action per shim     *)
(* function, translated from its body.  The specifications share the      *)
(* variables, one per component:                                           *)
(*   SpecHandles     create / accessor / destroy calls on opaque handles   *)
(*   SpecStencil     StencilTable_UpdateValues                             *)
(*   SpecPrimvar     PrimvarRefiner_Interpolate*                           *)
(*   SpecPatch       PatchTable_EvaluateBasis / PatchTable_EvaluatePoint   *)
(*   SpecLimit       LimitStencilTableFactory_Create                       *)
(*   SpecBackend     the OpenCL, Metal, OpenMP and TBB entry points        *)
(*   SpecPatchTable  the PatchTable_Get* queries                           *)
(*   SpecOptions     PatchTableFactory_Options_*                           *)
(*   SpecRefiner     a PrimvarRefiner and the TopologyRefiner it refers to *)
(*   SpecConcurrent  two threads in StencilTable_UpdateValues              *)
(*   SpecFindPatch   PatchMap_FindPatch, two runs on the same arguments    *)
(*   SpecSurface     Bfr_Surface_GetControlPointIndices / GatherPatchPoints *)
(* A specification leaves the other components' variables at their initial *)
(* values.                                                                 *)
(*                                                                         *)
(* Undefined behaviour (a member call through a null handle, an access     *)
(* past the end of an array) is recorded in a flag of the call record and  *)
(* its outcome is a nondeterministic choice: the process dies, or it goes  *)
(* on with whatever the access produced.                                   *)
(***************************************************************************)
EXTENDS Integers, Sequences, FiniteSets, TLC

VARIABLES
    \* ---- handles (SpecHandles)
    hasOpenCL,   \* build: OPENSUBDIV_HAS_OPENCL defined
    live,        \* the native heap: ids of the allocations that are live
    typeOf,      \* allocation id -> the C++ type allocated ("" before it is)
    ptrOf,       \* Bfr_SurfaceFactory_f wrapper id -> its ptr member
    freeCount,   \* allocation id -> how many times it was deleted
    crashed,     \* the process died (undefined behaviour took that outcome)
    hcall,       \* the last handle call: what was called and what it did
    \* ---- stencil table (SpecStencil)
    st,          \* the StencilTable behind the handle
    src,         \* the caller's source floats, one per control vertex
    dst,         \* the caller's destination floats, one per stencil
    scall,       \* the last StencilTable_UpdateValues call
    \* ---- primvar refiner (SpecPrimvar)
    psrc,        \* the caller's source floats (float* src)
    pdst,        \* the caller's destination floats (float* dst)
    pcall,       \* the last PrimvarRefiner_Interpolate* call
    \* ---- patch evaluator (SpecPatch)
    ptable,            \* the patch table the caller holds
    controlPoints,     \* the caller's control points, 3 floats per vertex
    numControlPoints,  \* the number of control points in that buffer
    weights,           \* the caller's six weight arrays
    result,            \* the caller's PatchEvalResult
    ecall,             \* the last PatchTable_Evaluate* call
    \* ---- limit stencil table factory (SpecLimit)
    lcall,       \* the last LimitStencilTableFactory_Create call
    \* ---- evaluator backends (SpecBackend; OpenCL is hasOpenCL above)
    build,       \* build: __APPLE__, and whether the OMP / TBB units are built
    bcall,       \* the last call of a backend function
    \* ---- patch table queries (SpecPatchTable)
    atable,      \* the patch table the caller holds
    descOut,     \* the caller's PatchDescriptor (*desc)
    paramOut,    \* the caller's PatchParam (*param)
    acall,       \* the last PatchTable_Get* call
    \* ---- patch table factory options (SpecOptions)
    opts,        \* the Options object behind the caller's handle
    history,     \* the option calls made on the handle so far, in order
    ocall,       \* the last option call and what it returned
    \* ---- refiner ownership (SpecRefiner)
    objs,        \* the native objects: type, alive, times freed, refiner member
    rlog,        \* what the caller did: the refiner passed at each create,
                 \* the TopologyRefiner_destroy calls made per object
    rcall,       \* the last call on a refiner handle
    \* ---- two threads in StencilTable_UpdateValues (SpecConcurrent)
    ctab,        \* the stencil table both calls are given
    csrc,        \* the src buffer both calls are given
    cdst,        \* the dst buffer both calls are given
    thr,         \* per thread: its arguments, position and local vectors
    clog,        \* dst before the calls, the dst entries each thread wrote,
                 \* whether the process died
    \* ---- PatchMap_FindPatch, run twice on the same arguments (SpecFindPatch)
    fmap,        \* the patch map
    outs,        \* per run: what the locations patchIndex, patchU, patchV hold
    fcall,       \* the call made in both runs and what each returned
    \* ---- Bfr surface output functions (SpecSurface)
    bsurf,       \* the Bfr::Surface behind the handle
    bout,        \* the caller's output buffer, of the capacity it declared
    gcall        \* the last call, what it returned and how much it wrote

hvars == <<hasOpenCL, live, typeOf, ptrOf, freeCount, crashed, hcall>>
svars == <<st, src, dst, scall>>
pvars == <<psrc, pdst, pcall>>
evars == <<ptable, controlPoints, numControlPoints, weights, result, ecall>>
lvars == <<lcall>>
bvars == <<build, bcall>>
avars == <<atable, descOut, paramOut, acall>>
ovars == <<opts, history, ocall>>
rvars == <<objs, rlog, rcall>>
cvars == <<ctab, csrc, cdst, thr, clog>>
fvars == <<fmap, outs, fcall>>
gvars == <<bsurf, bout, gcall>>
vars == <<hvars, svars, pvars, evars, lvars, bvars, avars, ovars, rvars, cvars, fvars, gvars>>

\* nullptr
NULL == 0

(***************************************************************************)
(* Bounds of the model.                                                    *)
(***************************************************************************)
\* how many native allocations a session makes
MaxAllocs == 3
\* how many stencils a stencil table holds
MaxStencils == 2
\* the refinement levels of the refiner a PrimvarRefiner is bound to
MaxLevel == 2

\* Primvar<1> .. Primvar<4>: the widest value type of the dispatch
MaxWidth == 4

\* the largest control point count a caller of PatchTable_EvaluatePoint passes
MaxControlPoints == 18

\* options_bitfield values are tried with every pattern of this many low
\* bits, under all-zero and under all-one upper bits
MaxLowBits == 6

\* the number of option calls made on one Options handle
MaxOptionCalls == 3

\* the number of native objects (refiners) a session allocates
MaxObjects == 3

\* the faces of a patch map, and the largest refinement depth a PatchParam
\* left uninitialised is taken to hold
MaxFaces == 2
MaxDepth == 1

\* the largest capacity (max_count, max_points) a caller declares
MaxCapacity == 4

\* `unsigned int`: 32 bits
UIntBits == 32

Ids == 1..MaxAllocs

(***************************************************************************)
(*                         HANDLES: create, access, destroy                *)
(***************************************************************************)

(* What one shim call does to the native heap.                             *)
(*   nullDeref  the body made a member access through a null handle        *)
(*   freed      the allocations it deleted                                 *)
(*   allocs     the types it allocated with new, in order                  *)
(*   ret        what it returned: "void", a sentinel ("null", "false",     *)
(*              "0"), "value" (what the wrapped object answered), "new"    *)
(*              (a handle to what it allocated), or "undefined" (after     *)
(*              undefined behaviour)                                       *)
Return(v) ==
    [nullDeref |-> FALSE, freed |-> {}, allocs |-> <<>>, ret |-> v]

\* `delete p;` : the delete-expression does nothing for a null pointer
CppDelete(p) ==
    [nullDeref |-> FALSE, freed |-> IF p = NULL THEN {} ELSE {p},
     allocs |-> <<>>, ret |-> "void"]

\* `return p->Get...();` : a member call through p, whatever p is
MemberCall(p, v) ==
    [nullDeref |-> p = NULL, freed |-> {}, allocs |-> <<>>,
     ret |-> IF p = NULL THEN "undefined" ELSE v]

\* `return Factory::Create(*in, ...)` / `new T(*in)` : in is dereferenced unchecked
CreateFrom(in, type) ==
    [nullDeref |-> in = NULL, freed |-> {},
     allocs |-> IF in = NULL THEN <<>> ELSE <<type>>,
     ret |-> IF in = NULL THEN "undefined" ELSE "new"]

\* ---- far/topology_refiner.cpp
TopologyRefinerFactory_TopologyDescriptor_Create ==
    [nullDeref |-> FALSE, freed |-> {}, allocs |-> <<"TopologyRefiner">>, ret |-> "new"]
TopologyRefiner_destroy(refiner) == CppDelete(refiner)
TopologyRefiner_GetNumLevels(refiner) == MemberCall(refiner, "value")

\* ---- far/patch_table.cpp
PatchTableFactory_Create(refiner) == CreateFrom(refiner, "PatchTable")
PatchTable_delete(table) == CppDelete(table)
PatchTable_GetNumPatchArrays(table) == MemberCall(table, "value")
PatchTable_GetNumPatches(table) == MemberCall(table, "value")
PatchTableFactory_Options_new ==
    [nullDeref |-> FALSE, freed |-> {}, allocs |-> <<"Options">>, ret |-> "new"]
PatchTableFactory_Options_delete(options) == CppDelete(options)
PatchTableFactory_Options_GetEndCapType(options) == MemberCall(options, "value")

\* ---- far/patch_evaluator.cpp
PatchMap_Create(table) ==
    IF table = NULL THEN Return("null") ELSE CreateFrom(table, "PatchMap")
PatchMap_delete(map) == CppDelete(map)

\* ---- far/stencil_table.cpp
StencilTable_destroy(t) == CppDelete(t)
StencilTable_GetNumStencils(t) == MemberCall(t, "value")
StencilTable_GetWeights(t) == MemberCall(t, "value")

\* ---- far/limit_stencil_table.cpp
LimitStencilTable_destroy(table) == CppDelete(table)
LimitStencilTable_GetDuWeights(table) == MemberCall(table, "value")

\* ---- far/primvar_refiner.cpp
PrimvarRefiner_create(tr) == CreateFrom(tr, "PrimvarRefiner")
\* a destroy that also deletes the TopologyRefiner the object refers to
PrimvarRefiner_destroy_owning(pr) ==
    [nullDeref |-> FALSE,
     freed |-> IF pr = NULL THEN {} ELSE {pr, objs[pr].refiner},
     allocs |-> <<>>, ret |-> "void"]

PrimvarRefiner_destroy(pr) == CppDelete(pr)
PrimvarRefiner_GetTopologyRefiner(pr) == MemberCall(pr, "value")

\* ---- bfr/surface_factory.cpp
Bfr_SurfaceFactory_Create(refiner) ==
    IF refiner = NULL
    THEN Return("null")
    ELSE [nullDeref |-> FALSE, freed |-> {},
          allocs |-> <<"Bfr_SurfaceFactory_f", "RefinerSurfaceFactory">>, ret |-> "new"]

\* the same body without its `delete factory->ptr;`
Bfr_SurfaceFactory_Destroy_wrapperOnly(factory) ==
    IF factory = NULL
    THEN Return("void")
    ELSE [nullDeref |-> FALSE, freed |-> {factory}, allocs |-> <<>>, ret |-> "void"]

\* the same body without its `if (!factory) return;`
Bfr_SurfaceFactory_Destroy_unguarded(factory) ==
    [nullDeref |-> factory = NULL,
     freed |-> IF factory = NULL THEN {} ELSE {ptrOf[factory], factory} \ {NULL},
     allocs |-> <<>>,
     ret |-> IF factory = NULL THEN "undefined" ELSE "void"]

Bfr_SurfaceFactory_Destroy(factory) ==
    IF factory = NULL
    THEN Return("void")
    ELSE [nullDeref |-> FALSE, freed |-> {ptrOf[factory], factory} \ {NULL},
          allocs |-> <<>>, ret |-> "void"]

Bfr_Surface_Create ==
    [nullDeref |-> FALSE, freed |-> {}, allocs |-> <<"Bfr_Surface_f">>, ret |-> "new"]
Bfr_Surface_Destroy(surface) == CppDelete(surface)
Bfr_Surface_IsValid(surface) ==
    IF surface = NULL THEN Return("false") ELSE MemberCall(surface, "value")
Bfr_Surface_GetNumControlPoints(surface) ==
    IF surface = NULL THEN Return("0") ELSE MemberCall(surface, "value")
Bfr_Surface_GetNumPatchPoints(surface) ==
    IF surface = NULL THEN Return("0") ELSE MemberCall(surface, "value")

\* ---- osd/opencl_evaluator.cpp, osd/opencl_vertex_buffer.cpp: the wrapper
\*      under OPENSUBDIV_HAS_OPENCL, the stub otherwise
CLStencilTable_destroy(t) == IF hasOpenCL THEN CppDelete(t) ELSE Return("void")
CLVertexBuffer_destroy(vb) == IF hasOpenCL THEN CppDelete(vb) ELSE Return("void")
CLVertexBuffer_GetNumElements(vb) ==
    IF hasOpenCL THEN MemberCall(vb, "value") ELSE Return("0")

\* ---- osd/metal_evaluator.cpp, osd/metal_vertex_buffer.cpp: these exist in
\*      a build for __APPLE__ only, which is the build modelled for them
MTLStencilTable_destroy(t) == CppDelete(t)
MTLVertexBuffer_destroy(vb) == CppDelete(vb)
MTLVertexBuffer_GetNumElements(vb) == MemberCall(vb, "value")

(* The accessors and destructors that take one object handle: the C++ type *)
(* of the handle, per function.                                            *)
Destroys ==
    [TopologyRefiner_destroy |-> "TopologyRefiner",
     PatchTable_delete |-> "PatchTable",
     PatchMap_delete |-> "PatchMap",
     PatchTableFactory_Options_delete |-> "Options",
     StencilTable_destroy |-> "StencilTable",
     LimitStencilTable_destroy |-> "LimitStencilTable",
     PrimvarRefiner_destroy |-> "PrimvarRefiner",
     Bfr_SurfaceFactory_Destroy |-> "Bfr_SurfaceFactory_f",
     Bfr_Surface_Destroy |-> "Bfr_Surface_f",
     CLStencilTable_destroy |-> "CLStencilTable",
     CLVertexBuffer_destroy |-> "CLVertexBuffer",
     MTLStencilTable_destroy |-> "MTLStencilTable",
     MTLVertexBuffer_destroy |-> "MTLVertexBuffer"]

Accessors ==
    [TopologyRefiner_GetNumLevels |-> "TopologyRefiner",
     PatchTable_GetNumPatchArrays |-> "PatchTable",
     PatchTable_GetNumPatches |-> "PatchTable",
     PatchTableFactory_Options_GetEndCapType |-> "Options",
     StencilTable_GetNumStencils |-> "StencilTable",
     StencilTable_GetWeights |-> "StencilTable",
     LimitStencilTable_GetDuWeights |-> "LimitStencilTable",
     PrimvarRefiner_GetTopologyRefiner |-> "PrimvarRefiner",
     Bfr_Surface_IsValid |-> "Bfr_Surface_f",
     Bfr_Surface_GetNumControlPoints |-> "Bfr_Surface_f",
     Bfr_Surface_GetNumPatchPoints |-> "Bfr_Surface_f",
     CLVertexBuffer_GetNumElements |-> "CLVertexBuffer",
     MTLVertexBuffer_GetNumElements |-> "MTLVertexBuffer"]

\* The factories: the type of the handle each requires ("" : none).
Factories ==
    [TopologyRefinerFactory_TopologyDescriptor_Create |-> "",
     PatchTableFactory_Create |-> "TopologyRefiner",
     PatchTableFactory_Options_new |-> "",
     PatchMap_Create |-> "PatchTable",
     PrimvarRefiner_create |-> "TopologyRefiner",
     Bfr_SurfaceFactory_Create |-> "TopologyRefiner",
     Bfr_Surface_Create |-> ""]

\* The body of function f applied to handle h.
ShimCall(f, h) ==
    CASE f = "TopologyRefiner_destroy" -> TopologyRefiner_destroy(h)
      [] f = "TopologyRefiner_GetNumLevels" -> TopologyRefiner_GetNumLevels(h)
      [] f = "PatchTable_delete" -> PatchTable_delete(h)
      [] f = "PatchTable_GetNumPatchArrays" -> PatchTable_GetNumPatchArrays(h)
      [] f = "PatchTable_GetNumPatches" -> PatchTable_GetNumPatches(h)
      [] f = "PatchTableFactory_Options_delete" -> PatchTableFactory_Options_delete(h)
      [] f = "PatchTableFactory_Options_GetEndCapType" -> PatchTableFactory_Options_GetEndCapType(h)
      [] f = "PatchMap_delete" -> PatchMap_delete(h)
      [] f = "StencilTable_destroy" -> StencilTable_destroy(h)
      [] f = "StencilTable_GetNumStencils" -> StencilTable_GetNumStencils(h)
      [] f = "StencilTable_GetWeights" -> StencilTable_GetWeights(h)
      [] f = "LimitStencilTable_destroy" -> LimitStencilTable_destroy(h)
      [] f = "LimitStencilTable_GetDuWeights" -> LimitStencilTable_GetDuWeights(h)
      [] f = "PrimvarRefiner_destroy" -> PrimvarRefiner_destroy(h)
      [] f = "PrimvarRefiner_GetTopologyRefiner" -> PrimvarRefiner_GetTopologyRefiner(h)
      [] f = "Bfr_SurfaceFactory_Destroy" -> Bfr_SurfaceFactory_Destroy(h)
      [] f = "Bfr_Surface_Destroy" -> Bfr_Surface_Destroy(h)
      [] f = "Bfr_Surface_IsValid" -> Bfr_Surface_IsValid(h)
      [] f = "Bfr_Surface_GetNumControlPoints" -> Bfr_Surface_GetNumControlPoints(h)
      [] f = "Bfr_Surface_GetNumPatchPoints" -> Bfr_Surface_GetNumPatchPoints(h)
      [] f = "CLStencilTable_destroy" -> CLStencilTable_destroy(h)
      [] f = "CLVertexBuffer_destroy" -> CLVertexBuffer_destroy(h)
      [] f = "CLVertexBuffer_GetNumElements" -> CLVertexBuffer_GetNumElements(h)
      [] f = "MTLStencilTable_destroy" -> MTLStencilTable_destroy(h)
      [] f = "MTLVertexBuffer_destroy" -> MTLVertexBuffer_destroy(h)
      [] f = "MTLVertexBuffer_GetNumElements" -> MTLVertexBuffer_GetNumElements(h)

\* The body of factory f applied to its required handle in (NULL where it
\* takes none).
ShimCreate(f, in) ==
    CASE f = "TopologyRefinerFactory_TopologyDescriptor_Create" ->
             TopologyRefinerFactory_TopologyDescriptor_Create
      [] f = "PatchTableFactory_Create" -> PatchTableFactory_Create(in)
      [] f = "PatchTableFactory_Options_new" -> PatchTableFactory_Options_new
      [] f = "PatchMap_Create" -> PatchMap_Create(in)
      [] f = "PrimvarRefiner_create" -> PrimvarRefiner_create(in)
      [] f = "Bfr_SurfaceFactory_Create" -> Bfr_SurfaceFactory_Create(in)
      [] f = "Bfr_Surface_Create" -> Bfr_Surface_Create

\* The handles a disciplined caller can pass for a parameter of type t: null,
\* or a live object of that type (never a destroyed one).
HandlesOf(t) == {NULL} \cup {i \in live : typeOf[i] = t}

Allocated == {i \in Ids : typeOf[i] # ""}

NoCall == [fn |-> "", h |-> NULL, nullDeref |-> FALSE, ret |-> "void", obj |-> NULL]

\* What the process does after a call: it dies only if the call ran into
\* undefined behaviour and that took the crash outcome.
AfterCall(o) ==
    /\ crashed' \in (IF o.nullDeref THEN BOOLEAN ELSE {FALSE})
    /\ live' = live \ o.freed
    /\ freeCount' = [i \in Ids |-> freeCount[i] + (IF i \in o.freed THEN 1 ELSE 0)]

\* An accessor or destructor call f(h).
HandleCall(f, h) ==
    /\ ~crashed
    /\ LET o == ShimCall(f, h)
       IN /\ AfterCall(o)
          /\ hcall' = [fn |-> f, h |-> h, nullDeref |-> o.nullDeref, ret |-> o.ret,
                       obj |-> NULL]
    /\ UNCHANGED <<hasOpenCL, typeOf, ptrOf>>

\* A factory call f(in): the objects it allocates take the next free ids, the
\* handle returned is the first of them; a Bfr_SurfaceFactory_f wrapper's ptr
\* is the second.
FactoryCall(f, in) ==
    /\ ~crashed
    /\ LET o == ShimCreate(f, in)
           n == Cardinality(Allocated)
           k == Len(o.allocs)
       IN /\ n + k <= MaxAllocs
          /\ crashed' \in (IF o.nullDeref THEN BOOLEAN ELSE {FALSE})
          /\ live' = live \cup (n + 1 .. n + k)
          /\ typeOf' = [i \in Ids |->
                          IF i \in n + 1 .. n + k THEN o.allocs[i - n] ELSE typeOf[i]]
          /\ ptrOf' = [i \in Ids |-> IF k = 2 /\ i = n + 1 THEN n + 2 ELSE ptrOf[i]]
          /\ hcall' = [fn |-> f, h |-> in, nullDeref |-> o.nullDeref,
                       ret |-> o.ret, obj |-> IF k > 0 THEN n + 1 ELSE NULL]
    /\ UNCHANGED <<hasOpenCL, freeCount>>

HandlesInit ==
    /\ hasOpenCL \in BOOLEAN
    /\ live = {}
    /\ typeOf = [i \in Ids |-> ""]
    /\ ptrOf = [i \in Ids |-> NULL]
    /\ freeCount = [i \in Ids |-> 0]
    /\ crashed = FALSE
    /\ hcall = NoCall

DestroyCall ==
    \E f \in DOMAIN Destroys : \E h \in HandlesOf(Destroys[f]) : HandleCall(f, h)

AccessorCall ==
    \E f \in DOMAIN Accessors : \E h \in HandlesOf(Accessors[f]) : HandleCall(f, h)

CreateCall ==
    \E f \in DOMAIN Factories :
        \E in \in (IF Factories[f] = "" THEN {NULL} ELSE HandlesOf(Factories[f])) :
            FactoryCall(f, in)

(***************************************************************************)
(*                 STENCIL TABLE: StencilTable_UpdateValues                *)
(***************************************************************************)

\* A C array: a function on 0 .. n-1.
Arr(seq) == [i \in 0 .. Len(seq) - 1 |-> seq[i + 1]]
Size(a) == Cardinality(DOMAIN a)

\* class FloatValue: the value type the shim hands to the wrapped template
FloatValue == [value |-> 0]
FloatValue_Clear(this) == [this EXCEPT !.value = 0]
FloatValue_AddWithWeight(this, other, weight) ==
    [this EXCEPT !.value = @ + other.value * weight]

(* The wrapped Far::StencilTable.  A table holds, per stencil, its size and *)
(* its offset into the flat arrays of control-vertex indices and weights.  *)
GetNumStencils(t) == Size(t.sizes)
GetNumControlVertices(t) == t.numControlVertices

(* The wrapped StencilTable::UpdateValues(src, dst, start, end), as the     *)
(* shim calls it: start <= 0 means from the first stencil, end < start or   *)
(* end < 0 means to the last; it walks the sizes, indices and weights from  *)
(* stencil start on and, for each i in [start, end), clears dst[i] and      *)
(* accumulates the stencil into it.  It does not compare start or end with  *)
(* the number of stencils: a stencil slot at or past it is an access past   *)
(* the end of the table's arrays and of dst (oob).                          *)
RECURSIVE Accumulate(_, _, _, _, _)
Accumulate(acc, t, srcValues, p, count) ==
    IF count = 0
    THEN acc
    ELSE Accumulate(FloatValue_AddWithWeight(acc, srcValues[t.indices[p]], t.weights[p]),
                    t, srcValues, p + 1, count - 1)

RECURSIVE UpdateLoop(_, _, _, _, _, _)
UpdateLoop(t, srcValues, dstValues, i, nstencils, p) ==
    IF i >= nstencils
    THEN [dstValues |-> dstValues, oob |-> FALSE]
    ELSE IF i >= GetNumStencils(t)
    THEN [dstValues |-> dstValues, oob |-> TRUE]
    ELSE UpdateLoop(t, srcValues,
                    [dstValues EXCEPT
                        ![i] = Accumulate(FloatValue_Clear(@), t, srcValues, p, t.sizes[i])],
                    i + 1, nstencils, p + t.sizes[i])

UpdateValues(t, srcValues, dstValues, start, end) ==
    LET first == IF start > 0 THEN start ELSE 0
        nstencils == IF end < first \/ end < 0 THEN GetNumStencils(t) ELSE end
    IN IF start > 0 /\ start >= Size(t.offsets)
       THEN [dstValues |-> dstValues, oob |-> TRUE]
       ELSE UpdateLoop(t, srcValues, dstValues, first, nstencils,
                       IF start > 0 THEN t.offsets[start] ELSE 0)

\* `int actualStart = (start < 0) ? 0 : start;` without the test
ActualStart_unclamped(start) == start

ActualStart(start) == IF start < 0 THEN 0 ELSE start

\* `int actualEnd = (end < 0 || end > numStencils) ? numStencils : end;`
ActualEnd(end, numStencils) ==
    IF end < 0 \/ end > numStencils THEN numStencils ELSE end

\* `for (i = actualStart; i < actualEnd; ++i) dst[i] = dstValues[i].value;`
\* dst and dstValues both hold numStencils entries.
RECURSIVE CopyBack(_, _, _, _)
CopyBack(d, dstValues, i, actualEnd) ==
    IF i >= actualEnd
    THEN [dst |-> d, oob |-> FALSE]
    ELSE IF i \notin DOMAIN dstValues \/ i \notin DOMAIN d
    THEN [dst |-> d, oob |-> TRUE]
    ELSE CopyBack([d EXCEPT ![i] = dstValues[i].value], dstValues, i + 1, actualEnd)

(* StencilTable_UpdateValues(st, src, dst, start, end): what it leaves in   *)
(* dst, and whether it ran past the end of an array on the way.  libOob:    *)
(* inside the wrapped UpdateValues; oob: anywhere.                          *)
StencilTable_UpdateValues(t, s, d, start, end) ==
    LET numControlVerts == GetNumControlVertices(t)
        numStencils == GetNumStencils(t)
        srcValues == [i \in 0 .. numControlVerts - 1 |-> [FloatValue EXCEPT !.value = s[i]]]
        dstValues == [i \in 0 .. numStencils - 1 |-> FloatValue]
        u == UpdateValues(t, srcValues, dstValues, start, end)
        c == CopyBack(d, u.dstValues, ActualStart(start), ActualEnd(end, numStencils))
    IN [dst |-> c.dst, libOob |-> u.oob, oob |-> u.oob \/ c.oob]

(* The inputs.  A table is a sequence of at most MaxStencils stencils, each *)
(* one of a few kinds; a kind lists its (control vertex, weight) pairs.     *)
StencilKinds ==
    { << <<0, 1>> >>,
      << <<0, 1>>, <<1, 2>> >>,
      << <<1, 3>> >> }

RECURSIVE Flatten(_)
Flatten(stencils) ==
    IF stencils = <<>> THEN <<>> ELSE Head(stencils) \o Flatten(Tail(stencils))

RECURSIVE Offsets(_, _)
Offsets(stencils, from) ==
    IF stencils = <<>>
    THEN <<>>
    ELSE <<from>> \o Offsets(Tail(stencils), from + Len(Head(stencils)))

MakeTable(stencils) ==
    LET flat == Flatten(stencils)
    IN [sizes |-> Arr([k \in 1 .. Len(stencils) |-> Len(stencils[k])]),
        offsets |-> Arr(Offsets(stencils, 0)),
        indices |-> Arr([k \in 1 .. Len(flat) |-> flat[k][1]]),
        weights |-> Arr([k \in 1 .. Len(flat) |-> flat[k][2]]),
        numControlVertices |-> Cardinality({0} \cup {x[1] : x \in UNION {{k[j] : j \in 1 .. Len(k)} : k \in StencilKinds}})]

StencilTables ==
    {MakeTable(ss) : ss \in UNION {[1 .. n -> StencilKinds] : n \in 0 .. MaxStencils}}

SrcFloats == {1, 2}
DstFloats == {50, 60}

NoStencilCall == [op |-> "", start |-> 0, end |-> 0, dstBefore |-> <<>>,
                  libOob |-> FALSE, oob |-> FALSE, crashed |-> FALSE]

StencilInit ==
    /\ st \in StencilTables
    /\ src \in [0 .. GetNumControlVertices(st) - 1 -> SrcFloats]
    /\ dst \in [0 .. GetNumStencils(st) - 1 -> DstFloats]
    /\ scall = NoStencilCall

StencilInitIdle ==
    /\ st = MakeTable(<<>>)
    /\ src = <<>>
    /\ dst = <<>>
    /\ scall = NoStencilCall

\* The call StencilTable_UpdateValues(st, src, dst, start, end).  An access
\* past the end of an array is undefined: the process dies there, or the
\* call completes with what it computed.
UpdateValuesCall(start, end) ==
    /\ scall.op = ""
    /\ LET r == StencilTable_UpdateValues(st, src, dst, start, end)
       IN \E dies \in (IF r.oob THEN BOOLEAN ELSE {FALSE}) :
            /\ dst' = IF dies THEN dst ELSE r.dst
            /\ scall' = [op |-> "UpdateValues", start |-> start, end |-> end,
                         dstBefore |-> dst, libOob |-> r.libOob, oob |-> r.oob,
                         crashed |-> dies]
    /\ UNCHANGED <<st, src>>

(***************************************************************************)
(*               PRIMVAR REFINER: PrimvarRefiner_Interpolate*              *)
(***************************************************************************)

\* template <int N> struct Primvar { float v[N]; ... }: a value of N floats
Primvar_Clear(N, this) == [i \in 0 .. N - 1 |-> 0]

\* AddWithWeight that adds the source's first component to every component
Primvar_AddWithWeight_firstOnly(N, this, p, weight) ==
    [i \in 0 .. N - 1 |-> this[i] + p[0] * weight]

Primvar_AddWithWeight(N, this, p, weight) ==
    [i \in 0 .. N - 1 |-> this[i] + p[i] * weight]

\* (Primvar<N>*)buf: element e of the float buffer seen as Primvar<N>
PrimvarAt(N, buf, e) == [i \in 0 .. N - 1 |-> buf[e * N + i]]
PrimvarStore(N, buf, e, value) ==
    [j \in DOMAIN buf |->
        IF e * N <= j /\ j < e * N + N THEN value[j - e * N] ELSE buf[j]]

(* The wrapped refiner.  What a level's interpolation combines is decided   *)
(* by the refined topology: for each destination element, the source        *)
(* elements that contribute to it, each with a weight.  These are the       *)
(* (source element, weight) lists of the refiner modelled, per entry point  *)
(* and level; it has two source elements per level.                         *)
Contributions(kind, level) ==
    CASE kind = "Interpolate" ->
            << << <<0, 1>>, <<1, level>> >>, << <<1, 2>> >> >>
      [] kind = "InterpolateVarying" ->
            << << <<0, 1>> >>, << <<0, 1>>, <<1, 1>> >> >>
      [] kind = "InterpolateFaceUniform" ->
            << << <<level % 2, 1>> >> >>
      [] kind = "InterpolateFaceVarying" ->
            << << <<1, 3>>, <<0, level>> >> >>

\* the number of source elements: those the contributions refer to
NumSrcElements ==
    Cardinality({Contributions(kind, level)[e][c][1] :
                    <<kind, level, e, c>> \in
                        {q \in {"Interpolate", "InterpolateVarying",
                                "InterpolateFaceUniform", "InterpolateFaceVarying"}
                                \X (1 .. MaxLevel) \X (1 .. 2) \X (1 .. 2) :
                            /\ q[3] <= Len(Contributions(q[1], q[2]))
                            /\ q[4] <= Len(Contributions(q[1], q[2])[q[3]])}})

(* The wrapped PrimvarRefiner::Interpolate*(level, src, dst) over a value   *)
(* type T = Primvar<N>: for every destination element, dst[e].Clear(), then *)
(* dst[e].AddWithWeight(src[s], w) per contributing source element.         *)
RECURSIVE AccumulatePrimvar(_, _, _, _)
AccumulatePrimvar(N, acc, buf, contribs) ==
    IF contribs = <<>>
    THEN acc
    ELSE AccumulatePrimvar(
            N,
            Primvar_AddWithWeight(N, acc, PrimvarAt(N, buf, Head(contribs)[1]),
                                  Head(contribs)[2]),
            buf, Tail(contribs))

RECURSIVE InterpolateLoop(_, _, _, _, _)
InterpolateLoop(N, stencils, e, srcBuf, dstBuf) ==
    IF e >= Len(stencils)
    THEN dstBuf
    ELSE InterpolateLoop(
            N, stencils, e + 1, srcBuf,
            PrimvarStore(N, dstBuf, e,
                AccumulatePrimvar(N, Primvar_Clear(N, PrimvarAt(N, dstBuf, e)),
                                  srcBuf, stencils[e + 1])))

\* One call `pr->Kind(level, (Primvar<N>*)src, (Primvar<N>*)dst)` of the
\* switch: through a null pr it is undefined behaviour.
InterpolateAs(kind, N, pr, level, srcBuf, dstBuf) ==
    [returned |-> TRUE, terminated |-> FALSE, printed |-> <<>>,
     nullDeref |-> pr = NULL,
     libCalls |-> << [kind |-> kind, level |-> level, width |-> N] >>,
     dst |-> IF pr = NULL
             THEN dstBuf
             ELSE InterpolateLoop(N, Contributions(kind, level), 0, srcBuf, dstBuf)]

\* `default: { printf("Invalid num elements for ..."); std::terminate(); }`
InvalidNumElements(kind, num_elements, dstBuf) ==
    [returned |-> FALSE, terminated |-> TRUE,
     printed |-> <<"Invalid num elements for", kind, num_elements>>,
     nullDeref |-> FALSE, libCalls |-> <<>>, dst |-> dstBuf]

PrimvarRefiner_Interpolate(pr, num_elements, level, srcBuf, dstBuf) ==
    CASE num_elements = 1 -> InterpolateAs("Interpolate", 1, pr, level, srcBuf, dstBuf)
      [] num_elements = 2 -> InterpolateAs("Interpolate", 2, pr, level, srcBuf, dstBuf)
      [] num_elements = 3 -> InterpolateAs("Interpolate", 3, pr, level, srcBuf, dstBuf)
      [] num_elements = 4 -> InterpolateAs("Interpolate", 4, pr, level, srcBuf, dstBuf)
      [] OTHER -> InvalidNumElements("Interpolate", num_elements, dstBuf)

\* InterpolateVarying whose default case only returns
PrimvarRefiner_InterpolateVarying_noTerminate(pr, num_elements, level, srcBuf, dstBuf) ==
    CASE num_elements = 1 -> InterpolateAs("InterpolateVarying", 1, pr, level, srcBuf, dstBuf)
      [] num_elements = 2 -> InterpolateAs("InterpolateVarying", 2, pr, level, srcBuf, dstBuf)
      [] num_elements = 3 -> InterpolateAs("InterpolateVarying", 3, pr, level, srcBuf, dstBuf)
      [] num_elements = 4 -> InterpolateAs("InterpolateVarying", 4, pr, level, srcBuf, dstBuf)
      [] OTHER -> [returned |-> TRUE, terminated |-> FALSE, printed |-> <<>>,
                   nullDeref |-> FALSE, libCalls |-> <<>>, dst |-> dstBuf]

PrimvarRefiner_InterpolateVarying(pr, num_elements, level, srcBuf, dstBuf) ==
    CASE num_elements = 1 -> InterpolateAs("InterpolateVarying", 1, pr, level, srcBuf, dstBuf)
      [] num_elements = 2 -> InterpolateAs("InterpolateVarying", 2, pr, level, srcBuf, dstBuf)
      [] num_elements = 3 -> InterpolateAs("InterpolateVarying", 3, pr, level, srcBuf, dstBuf)
      [] num_elements = 4 -> InterpolateAs("InterpolateVarying", 4, pr, level, srcBuf, dstBuf)
      [] OTHER -> InvalidNumElements("InterpolateVarying", num_elements, dstBuf)

PrimvarRefiner_InterpolateFaceUniform(pr, num_elements, level, srcBuf, dstBuf) ==
    CASE num_elements = 1 -> InterpolateAs("InterpolateFaceUniform", 1, pr, level, srcBuf, dstBuf)
      [] num_elements = 2 -> InterpolateAs("InterpolateFaceUniform", 2, pr, level, srcBuf, dstBuf)
      [] num_elements = 3 -> InterpolateAs("InterpolateFaceUniform", 3, pr, level, srcBuf, dstBuf)
      [] num_elements = 4 -> InterpolateAs("InterpolateFaceUniform", 4, pr, level, srcBuf, dstBuf)
      [] OTHER -> InvalidNumElements("InterpolateFaceUniform", num_elements, dstBuf)

PrimvarRefiner_InterpolateFaceVarying(pr, num_elements, level, srcBuf, dstBuf) ==
    CASE num_elements = 1 -> InterpolateAs("InterpolateFaceVarying", 1, pr, level, srcBuf, dstBuf)
      [] num_elements = 2 -> InterpolateAs("InterpolateFaceVarying", 2, pr, level, srcBuf, dstBuf)
      [] num_elements = 3 -> InterpolateAs("InterpolateFaceVarying", 3, pr, level, srcBuf, dstBuf)
      [] num_elements = 4 -> InterpolateAs("InterpolateFaceVarying", 4, pr, level, srcBuf, dstBuf)
      [] OTHER -> InvalidNumElements("InterpolateFaceVarying", num_elements, dstBuf)

InterpolateKinds ==
    {"Interpolate", "InterpolateVarying", "InterpolateFaceUniform", "InterpolateFaceVarying"}

PrimvarEntry(kind, pr, num_elements, level, srcBuf, dstBuf) ==
    CASE kind = "Interpolate" ->
            PrimvarRefiner_Interpolate(pr, num_elements, level, srcBuf, dstBuf)
      [] kind = "InterpolateVarying" ->
            PrimvarRefiner_InterpolateVarying(pr, num_elements, level, srcBuf, dstBuf)
      [] kind = "InterpolateFaceUniform" ->
            PrimvarRefiner_InterpolateFaceUniform(pr, num_elements, level, srcBuf, dstBuf)
      [] kind = "InterpolateFaceVarying" ->
            PrimvarRefiner_InterpolateFaceVarying(pr, num_elements, level, srcBuf, dstBuf)

\* The float buffers hold room for the widest value type per element.
PrimvarFloats == {1, 2}
BufferIndices == 0 .. NumSrcElements * MaxWidth - 1

NoPrimvarCall ==
    [op |-> "", pr |-> NULL, num_elements |-> 0, level |-> 0, returned |-> FALSE,
     terminated |-> FALSE, printed |-> <<>>, nullDeref |-> FALSE, crashed |-> FALSE,
     libCalls |-> <<>>, dstBefore |-> <<>>]

PrimvarInit ==
    /\ psrc \in [BufferIndices -> PrimvarFloats]
    /\ pdst = [j \in BufferIndices |-> 70 + j]
    /\ pcall = NoPrimvarCall

PrimvarInitIdle ==
    /\ psrc = <<>>
    /\ pdst = <<>>
    /\ pcall = NoPrimvarCall

\* The call PrimvarRefiner_<kind>(pr, num_elements, level, src, dst).
InterpolateCall(kind, pr, num_elements, level) ==
    /\ pcall.op = ""
    /\ LET r == PrimvarEntry(kind, pr, num_elements, level, psrc, pdst)
       IN \E dies \in BOOLEAN :
            /\ dies => r.nullDeref
            /\ pdst' = r.dst
            /\ pcall' = [op |-> kind, pr |-> pr, num_elements |-> num_elements,
                         level |-> level, returned |-> r.returned /\ ~dies,
                         terminated |-> r.terminated, printed |-> r.printed,
                         nullDeref |-> r.nullDeref, crashed |-> dies,
                         libCalls |-> r.libCalls, dstBefore |-> pdst]
    /\ UNCHANGED psrc

(***************************************************************************)
(*        PATCH EVALUATOR: PatchTable_EvaluateBasis / _EvaluatePoint       *)
(***************************************************************************)

(* float values are kept exact, as fractions <<numerator, denominator>> in  *)
(* lowest terms: the values computed here (1/16, small integers and their   *)
(* products and sums) are exactly representable in a float.                 *)
RECURSIVE Gcd(_, _)
Gcd(a, b) == IF b = 0 THEN a ELSE Gcd(b, a % b)

Float(n, d) ==
    LET sn == IF d < 0 THEN -n ELSE n
        sd == IF d < 0 THEN -d ELSE d
        g == Gcd(IF sn < 0 THEN -sn ELSE sn, sd)
    IN <<sn \div g, sd \div g>>

FloatAdd(x, y) == Float(x[1] * y[2] + y[1] * x[2], x[2] * y[2])
FloatMul(x, y) == Float(x[1] * y[1], x[2] * y[2])

\* a pointer argument: null, or the address of an object of the caller
NullPtr == [null |-> TRUE]
Ptr(obj) == [null |-> FALSE, obj |-> obj]

\* Far::PatchDescriptor::GetNumControlVertices(): the count follows the type
Descriptor_GetNumControlVertices(type) ==
    CASE type = "REGULAR" -> 16
      [] type = "QUADS" -> 4
      [] type = "TRIANGLES" -> 3
      [] type = "LOOP" -> 12

\* the patch table: its patch arrays, each a descriptor type and the control
\* vertex indices of its patches
GetNumPatchArrays(table) == Len(table)
GetNumPatches(table, i) == Len(table[i + 1].patches)
GetPatchArrayDescriptor(table, i) == table[i + 1].type
GetPatchArrayVertices(table, i) == Arr(Flatten(table[i + 1].patches))

RECURSIVE GetNumPatchesTotal(_)
GetNumPatchesTotal(table) ==
    IF table = <<>>
    THEN 0
    ELSE Len(Head(table).patches) + GetNumPatchesTotal(Tail(table))

\* `for (int i = 0; i < table->GetNumPatchArrays(); ++i) { ... }`: the patch
\* array and the local index of patch patchIndex
\* what the scan leaves in patchArray and localPatchIndex, and the number of
\* times its body ran
Scanned(patchArray, localPatchIndex, iterations) ==
    [patchArray |-> patchArray, localPatchIndex |-> localPatchIndex,
     iterations |-> iterations]

\* the locals of a call that returned before the scan
NotScanned == Scanned(0, 0, 0)

\* a scan that stops at the right array and loses the local index
Found_first(i, localPatchIndex) == Scanned(i, 0, i + 1)

\* `patchArray = i; break;` in iteration i
Found(i, localPatchIndex) == Scanned(i, localPatchIndex, i + 1)

RECURSIVE FindPatchArray(_, _, _, _)
FindPatchArray(table, i, patchArray, localPatchIndex) ==
    IF i >= GetNumPatchArrays(table)
    THEN Scanned(patchArray, localPatchIndex, i)
    ELSE LET numPatches == GetNumPatches(table, i)
         IN IF localPatchIndex < numPatches
            THEN Found(i, localPatchIndex)
            ELSE FindPatchArray(table, i + 1, patchArray, localPatchIndex - numPatches)

\* `if (w) { for (int i = 0; i < numControlVerts; ++i) w[i] = value; }`
FillWeights(w, numControlVerts, value) ==
    IF w.null
    THEN w
    ELSE Ptr([i \in DOMAIN w.obj |-> IF i < numControlVerts THEN value ELSE w.obj[i]])

\* position weights that are all 1 instead of 1 / numControlVerts
UniformWeight_one(numControlVerts) == Float(1, 1)

\* `float w = 1.0f / numControlVerts;`
UniformWeight(numControlVerts) == Float(1, numControlVerts)

BasisResult(ret, found, wP, wDu, wDv, wDuu, wDuv, wDvv) ==
    [ret |-> ret, found |-> found, wP |-> wP, wDu |-> wDu, wDv |-> wDv,
     wDuu |-> wDuu, wDuv |-> wDuv, wDvv |-> wDvv]

\* EvaluateBasis that treats every descriptor type as REGULAR
PatchTable_EvaluateBasis_anyType(table, patchIndex, u, v, wP, wDu, wDv, wDuu, wDuv, wDvv) ==
    IF table.null \/ patchIndex < 0 \/ patchIndex >= GetNumPatchesTotal(table.obj)
    THEN BasisResult(FALSE, NotScanned, wP, wDu, wDv, wDuu, wDuv, wDvv)
    ELSE LET found == FindPatchArray(table.obj, 0, 0, patchIndex)
             desc == GetPatchArrayDescriptor(table.obj, found.patchArray)
             numControlVerts == Descriptor_GetNumControlVertices(desc)
         IN BasisResult(TRUE, found,
                        FillWeights(wP, numControlVerts, UniformWeight(numControlVerts)),
                        FillWeights(wDu, numControlVerts, Float(0, 1)),
                        FillWeights(wDv, numControlVerts, Float(0, 1)),
                        FillWeights(wDuu, numControlVerts, Float(0, 1)),
                        FillWeights(wDuv, numControlVerts, Float(0, 1)),
                        FillWeights(wDvv, numControlVerts, Float(0, 1)))

(* PatchTable_EvaluateBasis.  param.Normalize(u, v) changes the function's  *)
(* own copies of u and v, which nothing reads afterwards.                   *)
PatchTable_EvaluateBasis(table, patchIndex, u, v, wP, wDu, wDv, wDuu, wDuv, wDvv) ==
    IF table.null \/ patchIndex < 0 \/ patchIndex >= GetNumPatchesTotal(table.obj)
    THEN BasisResult(FALSE, NotScanned, wP, wDu, wDv, wDuu, wDuv, wDvv)
    ELSE LET found == FindPatchArray(table.obj, 0, 0, patchIndex)
             desc == GetPatchArrayDescriptor(table.obj, found.patchArray)
             numControlVerts == Descriptor_GetNumControlVertices(desc)
         IN IF desc = "REGULAR"
            THEN BasisResult(TRUE, found,
                        FillWeights(wP, numControlVerts, UniformWeight(numControlVerts)),
                        FillWeights(wDu, numControlVerts, Float(0, 1)),
                        FillWeights(wDv, numControlVerts, Float(0, 1)),
                        FillWeights(wDuu, numControlVerts, Float(0, 1)),
                        FillWeights(wDuv, numControlVerts, Float(0, 1)),
                        FillWeights(wDvv, numControlVerts, Float(0, 1)))
            ELSE BasisResult(FALSE, found, wP, wDu, wDv, wDuu, wDuv, wDvv)

\* struct PatchEvalResult { float point[3]; float du[3]; ... float dvv[3]; }
ResultFields == {"point", "du", "dv", "duu", "duv", "dvv"}
Vector3(value) == [i \in 0 .. 2 |-> value]
PatchEvalResult(value) == [f \in ResultFields |-> Vector3(value)]

\* `std::vector<float> wP(numCVs)`: numCVs floats, value-initialised
FloatVector(numCVs) == [i \in 0 .. numCVs - 1 |-> Float(0, 1)]

\* the test of `if (vertexIndex >= numControlPoints) return false;`, one too wide
IndexInRange_offByOne(vertexIndex, numCP) == vertexIndex <= numCP

\* the control point passes `if (vertexIndex >= numControlPoints) return false;`
IndexInRange(vertexIndex, numCP) == vertexIndex < numCP

\* `cp[i]` with cp = &controlPoints[vertexIndex * 3]
ControlPointFloat(cp, j) == IF j \in DOMAIN cp THEN Float(cp[j], 1) ELSE Float(0, 1)

\* an accumulation that reads the control point's first coordinate for all three
AccumulatePoint_firstCoord(res, basis, cv, cp, vertexIndex) ==
    LET w == [point |-> basis.wP.obj[cv], du |-> basis.wDu.obj[cv],
              dv |-> basis.wDv.obj[cv], duu |-> basis.wDuu.obj[cv],
              duv |-> basis.wDuv.obj[cv], dvv |-> basis.wDvv.obj[cv]]
    IN [f \in ResultFields |->
            [i \in 0 .. 2 |->
                FloatAdd(res[f][i],
                         FloatMul(w[f], ControlPointFloat(cp, vertexIndex * 3)))]]

\* `result->f[i] += w[cv] * cp[i]` for i = 0, 1, 2 and each field f
AccumulatePoint(res, basis, cv, cp, vertexIndex) ==
    LET w == [point |-> basis.wP.obj[cv], du |-> basis.wDu.obj[cv],
              dv |-> basis.wDv.obj[cv], duu |-> basis.wDuu.obj[cv],
              duv |-> basis.wDuv.obj[cv], dvv |-> basis.wDvv.obj[cv]]
    IN [f \in ResultFields |->
            [i \in 0 .. 2 |->
                FloatAdd(res[f][i],
                         FloatMul(w[f], ControlPointFloat(cp, vertexIndex * 3 + i)))]]

\* `for (int cv = 0; cv < numCVs; ++cv) { ... }`
RECURSIVE ApplyWeights(_, _, _, _, _, _, _, _, _)
ApplyWeights(cv, numCVs, cvIndices, cvStart, basis, cp, numCP, res, reads) ==
    IF cv >= numCVs
    THEN [ret |-> TRUE, result |-> res, reads |-> reads]
    ELSE LET vertexIndex == cvIndices[cvStart + cv]
         IN IF ~IndexInRange(vertexIndex, numCP)
            THEN [ret |-> FALSE, result |-> res, reads |-> reads]
            ELSE ApplyWeights(cv + 1, numCVs, cvIndices, cvStart, basis, cp, numCP,
                              AccumulatePoint(res, basis, cv, cp, vertexIndex),
                              reads \cup {vertexIndex * 3 + i : i \in 0 .. 2})

(* PatchTable_EvaluatePoint: .result is what the caller's structure holds   *)
(* when the call ends, .reads the float indices of controlPoints it read.   *)
PatchTable_EvaluatePoint(table, patchIndex, u, v, cp, numCP, res) ==
    IF table.null \/ cp.null \/ res.null
    THEN [ret |-> FALSE, result |-> res, reads |-> {}, found |-> NotScanned]
    ELSE LET totalPatches == GetNumPatchesTotal(table.obj)
         IN IF patchIndex < 0 \/ patchIndex >= totalPatches
            THEN [ret |-> FALSE, result |-> res, reads |-> {}, found |-> NotScanned]
            ELSE LET found == FindPatchArray(table.obj, 0, 0, patchIndex)
                     desc == GetPatchArrayDescriptor(table.obj, found.patchArray)
                     numCVs == Descriptor_GetNumControlVertices(desc)
                     basis == PatchTable_EvaluateBasis(
                                 table, patchIndex, u, v,
                                 Ptr(FloatVector(numCVs)), Ptr(FloatVector(numCVs)),
                                 Ptr(FloatVector(numCVs)), Ptr(FloatVector(numCVs)),
                                 Ptr(FloatVector(numCVs)), Ptr(FloatVector(numCVs)))
                 IN IF ~basis.ret
                    THEN [ret |-> FALSE, result |-> res, reads |-> {}, found |-> found]
                    ELSE LET cvIndices == GetPatchArrayVertices(table.obj, found.patchArray)
                             cvStart == found.localPatchIndex * numCVs
                             applied == ApplyWeights(0, numCVs, cvIndices, cvStart, basis,
                                                     cp.obj, numCP,
                                                     PatchEvalResult(Float(0, 1)), {})
                         IN [ret |-> applied.ret, result |-> Ptr(applied.result),
                             reads |-> applied.reads, found |-> found]

\* The patch tables evaluated: patches whose control vertex indices rise
\* from a base index, or fall to it.  The indices a patch table holds are
\* vertex indices of the refined mesh, none negative.  The last two tables have
\* patch arrays without patches, before and between the others.
AscendingCVs(base, type) ==
    [k \in 1 .. Descriptor_GetNumControlVertices(type) |-> base + k - 1]
DescendingCVs(base, type) ==
    [k \in 1 .. Descriptor_GetNumControlVertices(type) |->
        base + Descriptor_GetNumControlVertices(type) - k]
PatchArray(type, patches) == [type |-> type, patches |-> patches]

PatchTables ==
    { <<>>,
      << PatchArray("REGULAR", << AscendingCVs(0, "REGULAR"), DescendingCVs(2, "REGULAR") >>) >>,
      << PatchArray("QUADS", << AscendingCVs(0, "QUADS") >>),
         PatchArray("REGULAR", << AscendingCVs(1, "REGULAR") >>) >>,
      << PatchArray("REGULAR", << DescendingCVs(0, "REGULAR") >>),
         PatchArray("TRIANGLES", << AscendingCVs(0, "TRIANGLES"), AscendingCVs(3, "TRIANGLES") >>) >>,
      << PatchArray("LOOP", << AscendingCVs(0, "LOOP") >>) >>,
      << PatchArray("QUADS", << >>),
         PatchArray("REGULAR", << AscendingCVs(2, "REGULAR") >>) >>,
      << PatchArray("REGULAR", << DescendingCVs(1, "REGULAR") >>),
         PatchArray("TRIANGLES", << >>),
         PatchArray("REGULAR", << >>),
         PatchArray("REGULAR", << AscendingCVs(0, "REGULAR") >>) >> }

\* the largest number of patches of a table: patch indices up to it are tried
MaxPatchIndex ==
    CHOOSE m \in {GetNumPatchesTotal(t) : t \in PatchTables} :
        \A t \in PatchTables : GetNumPatchesTotal(t) <= m

WeightNames == {"wP", "wDu", "wDv", "wDuu", "wDuv", "wDvv"}
\* the caller's weight arrays have room for one entry more than a regular
\* patch has control vertices
WeightCapacity == Descriptor_GetNumControlVertices("REGULAR") + 1
UntouchedWeights == [name \in WeightNames |-> [i \in 0 .. WeightCapacity - 1 |-> Float(9, 1)]]

ControlPointCounts ==
    {0, 1, MaxControlPoints - 2, MaxControlPoints - 1, MaxControlPoints}
ControlPointBuffers(n) ==
    { [j \in 0 .. 3 * n - 1 |-> (j % 5) + 1],
      [j \in 0 .. 3 * n - 1 |-> 16 * (j + 1)] }
Params == { <<0, 0>>, <<1, 2>> }

NoEvalCall ==
    [op |-> "", tableNull |-> FALSE, patchIndex |-> 0, u |-> 0, v |-> 0, ptrs |-> {},
     cpNull |-> FALSE, resultNull |-> FALSE, ret |-> FALSE, reads |-> {},
     found |-> NotScanned,
     weightsBefore |-> <<>>, resultBefore |-> <<>>]

PatchInit ==
    /\ ptable \in PatchTables
    /\ numControlPoints \in ControlPointCounts
    /\ controlPoints \in ControlPointBuffers(numControlPoints)
    /\ weights = UntouchedWeights
    /\ result = PatchEvalResult(Float(7, 1))
    /\ ecall = NoEvalCall

PatchInitIdle ==
    /\ ptable = <<>>
    /\ numControlPoints = 0
    /\ controlPoints = <<>>
    /\ weights = <<>>
    /\ result = <<>>
    /\ ecall = NoEvalCall

\* The call PatchTable_EvaluateBasis(table, patchIndex, u, v, wP, ..., wDvv);
\* ptrs names the weight arrays passed, the others are passed as null.
EvaluateBasisCall(tableNull, patchIndex, uv, ptrs) ==
    /\ ecall.op = ""
    /\ LET arg(name) == IF name \in ptrs THEN Ptr(weights[name]) ELSE NullPtr
           r == PatchTable_EvaluateBasis(
                    IF tableNull THEN NullPtr ELSE Ptr(ptable), patchIndex, uv[1], uv[2],
                    arg("wP"), arg("wDu"), arg("wDv"), arg("wDuu"), arg("wDuv"), arg("wDvv"))
       IN /\ weights' = [name \in WeightNames |->
                            IF name \in ptrs THEN r[name].obj ELSE weights[name]]
          /\ ecall' = [NoEvalCall EXCEPT
                        !.op = "PatchTable_EvaluateBasis", !.tableNull = tableNull,
                        !.patchIndex = patchIndex, !.u = uv[1], !.v = uv[2],
                        !.ptrs = ptrs, !.ret = r.ret, !.found = r.found,
                        !.weightsBefore = weights, !.resultBefore = result]
    /\ UNCHANGED <<ptable, controlPoints, numControlPoints, result>>

\* The call PatchTable_EvaluatePoint(table, patchIndex, u, v, controlPoints,
\* numControlPoints, result), each pointer passed or null.
EvaluatePointCall(tableNull, patchIndex, uv, cpNull, resultNull) ==
    /\ ecall.op = ""
    /\ LET r == PatchTable_EvaluatePoint(
                    IF tableNull THEN NullPtr ELSE Ptr(ptable), patchIndex, uv[1], uv[2],
                    IF cpNull THEN NullPtr ELSE Ptr(controlPoints), numControlPoints,
                    IF resultNull THEN NullPtr ELSE Ptr(result))
       IN /\ result' = IF resultNull THEN result ELSE r.result.obj
          /\ ecall' = [NoEvalCall EXCEPT
                        !.op = "PatchTable_EvaluatePoint", !.tableNull = tableNull,
                        !.patchIndex = patchIndex, !.u = uv[1], !.v = uv[2],
                        !.cpNull = cpNull, !.resultNull = resultNull,
                        !.ret = r.ret, !.reads = r.reads, !.found = r.found,
                        !.weightsBefore = weights, !.resultBefore = result]
    /\ UNCHANGED <<ptable, controlPoints, numControlPoints, weights>>

(***************************************************************************)
(*          LIMIT STENCIL TABLE FACTORY: LimitStencilTableFactory_Create   *)
(***************************************************************************)

\* An unsigned int is kept as its UIntBits bits, bit 0 the lowest.
RECURSIVE BitOf(_, _)
BitOf(n, k) == IF k = 0 THEN n % 2 ELSE BitOf(n \div 2, k - 1)

\* the unsigned int of a small literal, as 0x3 and 0x1
UInt(n) == [k \in 0 .. UIntBits - 1 |-> BitOf(n, k)]

\* a & b and a >> n on unsigned int
BitAnd(a, b) == [k \in 0 .. UIntBits - 1 |-> a[k] * b[k]]
ShiftRight(a, n) == [k \in 0 .. UIntBits - 1 |-> IF k + n < UIntBits THEN a[k + n] ELSE 0]

\* the assignment to a bit-field member `unsigned int m : width`: the value
\* of the low width bits
RECURSIVE BitField(_, _)
BitField(a, width) ==
    IF width = 0 THEN 0 ELSE BitField(a, width - 1) + a[width - 1] * 2 ^ (width - 1)

\* the unpacking with the two derivative bits read from each other's place
UnpackOptions_swapped(options_bitfield, fvar_channel) ==
    [interpolationMode |-> BitField(BitAnd(options_bitfield, UInt(3)), 2),
     generate1stDerivatives |-> BitField(BitAnd(ShiftRight(options_bitfield, 3), UInt(1)), 1),
     generate2ndDerivatives |-> BitField(BitAnd(ShiftRight(options_bitfield, 2), UInt(1)), 1),
     fvarChannel |-> fvar_channel]

\* `options.interpolationMode = options_bitfield & 0x3; ...` into the wrapped
\* LimitStencilTableFactory::Options (interpolationMode : 2,
\* generate1stDerivatives : 1, generate2ndDerivatives : 1, fvarChannel)
UnpackOptions(options_bitfield, fvar_channel) ==
    [interpolationMode |-> BitField(BitAnd(options_bitfield, UInt(3)), 2),
     generate1stDerivatives |-> BitField(BitAnd(ShiftRight(options_bitfield, 2), UInt(1)), 1),
     generate2ndDerivatives |-> BitField(BitAnd(ShiftRight(options_bitfield, 3), UInt(1)), 1),
     fvarChannel |-> fvar_channel]

\* `locations[i] = location_descs[i]` field by field, for i < num_arrays
RebuildLocations(location_descs, num_arrays) ==
    [i \in 0 .. num_arrays - 1 |->
        [ptexIdx |-> location_descs[i].ptex_idx,
         numLocations |-> location_descs[i].num_locations,
         s |-> location_descs[i].s,
         t |-> location_descs[i].t]]

(* LimitStencilTableFactory_Create: what it hands to the wrapped            *)
(* LimitStencilTableFactory::Create.  `*refiner` on a null refiner is       *)
(* undefined behaviour.                                                     *)
LimitStencilTableFactory_Create(refiner, location_descs, num_arrays, cv_stencils, patch_table, options_bitfield, fvar_channel) ==
    [nullDeref |-> refiner = NULL,
     locations |-> RebuildLocations(location_descs, num_arrays),
     cvStencils |-> cv_stencils,
     patchTable |-> patch_table,
     options |-> UnpackOptions(options_bitfield, fvar_channel)]

\* the caller's location descriptors: s and t name the caller's float arrays
LocationDescs ==
    Arr(<< [ptex_idx |-> 0, num_locations |-> 1, s |-> "s0", t |-> "t0"],
           [ptex_idx |-> 3, num_locations |-> 2, s |-> "s1", t |-> "t1"] >>)

\* every pattern of the low MaxLowBits bits, the bits above all 0 or all 1
Bitfields ==
    {[k \in 0 .. UIntBits - 1 |-> IF k < MaxLowBits THEN BitOf(low, k) ELSE upper] :
        low \in 0 .. 2 ^ MaxLowBits - 1, upper \in {0, 1}}
FvarChannels == {UInt(0), UInt(1), [k \in 0 .. UIntBits - 1 |-> 1]}

NoLimitCall ==
    [op |-> "", refiner |-> NULL, options_bitfield |-> UInt(0), fvar_channel |-> UInt(0),
     num_arrays |-> 0, nullDeref |-> FALSE, crashed |-> FALSE, locations |-> <<>>,
     options |-> UnpackOptions(UInt(0), UInt(0))]

LimitInit == lcall = NoLimitCall

\* The call LimitStencilTableFactory_Create(refiner, location_descs,
\* num_arrays, cv_stencils, patch_table, options_bitfield, fvar_channel).
LimitCreateCall(refiner, num_arrays, options_bitfield, fvar_channel) ==
    /\ lcall.op = ""
    /\ LET r == LimitStencilTableFactory_Create(refiner, LocationDescs, num_arrays,
                                                NULL, NULL, options_bitfield, fvar_channel)
       IN \E dies \in BOOLEAN :
            /\ dies => r.nullDeref
            /\ lcall' = [op |-> "LimitStencilTableFactory_Create", refiner |-> refiner,
                         options_bitfield |-> options_bitfield,
                         fvar_channel |-> fvar_channel, num_arrays |-> num_arrays,
                         nullDeref |-> r.nullDeref, crashed |-> dies,
                         locations |-> r.locations, options |-> r.options]

(***************************************************************************)
(*           EVALUATOR BACKENDS: osd/ (OpenCL, Metal, OMP, TBB)            *)
(***************************************************************************)

(* What a backend function does with the pointer arguments it is given      *)
(* (p stands for them: all null, or all pointing to objects):               *)
(*   ret        as for the handle functions                                 *)
(*   nullDeref  the body made a member access through a null pointer        *)
(*   touched    the body, or the wrapped call it forwards to, was handed    *)
(*              or used the pointers                                        *)
\* a stub body: the parameters are unnamed, only the sentinel is returned
StubBody(v) == [ret |-> v, nullDeref |-> FALSE, touched |-> FALSE]
\* `return Wrapped::Static(p, ...)`: the pointers go to the wrapped library
WrappedCall(ptr, v) == [ret |-> v, nullDeref |-> FALSE, touched |-> TRUE]
\* `p->Member(...)`
WrappedMember(ptr, v) ==
    [ret |-> IF ptr = NULL THEN "undefined" ELSE v, nullDeref |-> ptr = NULL,
     touched |-> TRUE]
\* the same of a function modelled with the handle functions above
OfHandleCall(o) ==
    [ret |-> o.ret, nullDeref |-> o.nullDeref,
     touched |-> o.nullDeref \/ o.freed # {} \/ o.ret = "value"]

\* ---- osd/opencl_evaluator.cpp
CLStencilTable_Create(table) ==
    IF hasOpenCL THEN WrappedCall(table, "value") ELSE StubBody("null")
CLEvaluator_EvalStencils(buffers) ==
    IF hasOpenCL THEN WrappedCall(buffers, "value") ELSE StubBody("false")

\* ---- osd/opencl_vertex_buffer.cpp
CLVertexBuffer_Create(clContext) ==
    IF hasOpenCL THEN WrappedCall(clContext, "value") ELSE StubBody("null")
CLVertexBuffer_UpdateData(vb) ==
    IF hasOpenCL THEN WrappedMember(vb, "void") ELSE StubBody("void")
CLVertexBuffer_GetNumVertices(vb) ==
    IF hasOpenCL THEN WrappedMember(vb, "value") ELSE StubBody("0")
CLVertexBuffer_BindCLBuffer(vb) ==
    IF hasOpenCL THEN WrappedMember(vb, "value") ELSE StubBody("null")

\* ---- osd/metal_evaluator.cpp, osd/metal_vertex_buffer.cpp (inside
\*      #ifdef __APPLE__, with no #else)
MTLStencilTable_Create(table) == WrappedCall(table, "value")
MTLComputeEvaluator_EvalStencils(buffers) == WrappedCall(buffers, "value")
MTLVertexBuffer_Create(device) == WrappedCall(device, "value")
MTLVertexBuffer_UpdateData(vb) == WrappedMember(vb, "void")
MTLVertexBuffer_GetNumVertices(vb) == WrappedMember(vb, "value")
MTLVertexBuffer_GetMTLBuffer(vb) == WrappedMember(vb, "value")

\* ---- osd/omp_evaluator.cpp, osd/tbb_evaluator.cpp (unconditional)
OmpEvaluator_EvalStencils(buffers) == WrappedCall(buffers, "value")
TbbEvaluator_EvalStencils(buffers) == WrappedCall(buffers, "value")

(* The backend each function belongs to.                                    *)
BackendOf ==
    [CLStencilTable_Create |-> "OpenCL", CLStencilTable_destroy |-> "OpenCL",
     CLEvaluator_EvalStencils |-> "OpenCL", CLVertexBuffer_Create |-> "OpenCL",
     CLVertexBuffer_destroy |-> "OpenCL", CLVertexBuffer_UpdateData |-> "OpenCL",
     CLVertexBuffer_GetNumElements |-> "OpenCL",
     CLVertexBuffer_GetNumVertices |-> "OpenCL",
     CLVertexBuffer_BindCLBuffer |-> "OpenCL",
     MTLStencilTable_Create |-> "Metal", MTLStencilTable_destroy |-> "Metal",
     MTLComputeEvaluator_EvalStencils |-> "Metal", MTLVertexBuffer_Create |-> "Metal",
     MTLVertexBuffer_destroy |-> "Metal", MTLVertexBuffer_UpdateData |-> "Metal",
     MTLVertexBuffer_GetNumElements |-> "Metal",
     MTLVertexBuffer_GetNumVertices |-> "Metal",
     MTLVertexBuffer_GetMTLBuffer |-> "Metal",
     OmpEvaluator_EvalStencils |-> "OMP", TbbEvaluator_EvalStencils |-> "TBB"]

\* the backend is compiled in
BackendEnabled(b, bld) ==
    CASE b = "OpenCL" -> hasOpenCL
      [] b = "Metal" -> bld.apple
      [] b = "OMP" -> bld.omp
      [] b = "TBB" -> bld.tbb

(* Whether the build defines the function at all.  The OpenCL units have an *)
(* #else branch of stubs; the Metal units are empty without __APPLE__; the  *)
(* OMP and TBB units have one unconditional body each, so they define their *)
(* function only in a build that compiles them.                             *)
IsDefined(f, bld) ==
    CASE BackendOf[f] = "OpenCL" -> TRUE
      [] BackendOf[f] = "Metal" -> bld.apple
      [] BackendOf[f] = "OMP" -> bld.omp
      [] BackendOf[f] = "TBB" -> bld.tbb

BackendBody(f, ptr) ==
    CASE f = "CLStencilTable_Create" -> CLStencilTable_Create(ptr)
      [] f = "CLStencilTable_destroy" -> OfHandleCall(CLStencilTable_destroy(ptr))
      [] f = "CLEvaluator_EvalStencils" -> CLEvaluator_EvalStencils(ptr)
      [] f = "CLVertexBuffer_Create" -> CLVertexBuffer_Create(ptr)
      [] f = "CLVertexBuffer_destroy" -> OfHandleCall(CLVertexBuffer_destroy(ptr))
      [] f = "CLVertexBuffer_UpdateData" -> CLVertexBuffer_UpdateData(ptr)
      [] f = "CLVertexBuffer_GetNumElements" ->
            OfHandleCall(CLVertexBuffer_GetNumElements(ptr))
      [] f = "CLVertexBuffer_GetNumVertices" -> CLVertexBuffer_GetNumVertices(ptr)
      [] f = "CLVertexBuffer_BindCLBuffer" -> CLVertexBuffer_BindCLBuffer(ptr)
      [] f = "MTLStencilTable_Create" -> MTLStencilTable_Create(ptr)
      [] f = "MTLStencilTable_destroy" -> OfHandleCall(MTLStencilTable_destroy(ptr))
      [] f = "MTLComputeEvaluator_EvalStencils" -> MTLComputeEvaluator_EvalStencils(ptr)
      [] f = "MTLVertexBuffer_Create" -> MTLVertexBuffer_Create(ptr)
      [] f = "MTLVertexBuffer_destroy" -> OfHandleCall(MTLVertexBuffer_destroy(ptr))
      [] f = "MTLVertexBuffer_UpdateData" -> MTLVertexBuffer_UpdateData(ptr)
      [] f = "MTLVertexBuffer_GetNumElements" ->
            OfHandleCall(MTLVertexBuffer_GetNumElements(ptr))
      [] f = "MTLVertexBuffer_GetNumVertices" -> MTLVertexBuffer_GetNumVertices(ptr)
      [] f = "MTLVertexBuffer_GetMTLBuffer" -> MTLVertexBuffer_GetMTLBuffer(ptr)
      [] f = "OmpEvaluator_EvalStencils" -> OmpEvaluator_EvalStencils(ptr)
      [] f = "TbbEvaluator_EvalStencils" -> TbbEvaluator_EvalStencils(ptr)

NoBackendCall ==
    [op |-> "", ptr |-> NULL, defined |-> TRUE, ret |-> "void", nullDeref |-> FALSE,
     touched |-> FALSE, crashed |-> FALSE]

BackendInit ==
    /\ build \in [apple : BOOLEAN, omp : BOOLEAN, tbb : BOOLEAN]
    /\ bcall = NoBackendCall

BackendInitIdle ==
    /\ build = [apple |-> FALSE, omp |-> FALSE, tbb |-> FALSE]
    /\ bcall = NoBackendCall

\* A caller's use of backend function f with pointer arguments ptr: a call
\* of its body if the build defines f, otherwise an unresolved symbol.
BackendCall(f, ptr) ==
    /\ bcall.op = ""
    /\ IF IsDefined(f, build)
       THEN LET o == BackendBody(f, ptr)
            IN \E dies \in BOOLEAN :
                /\ dies => o.nullDeref
                /\ bcall' = [op |-> f, ptr |-> ptr, defined |-> TRUE, ret |-> o.ret,
                             nullDeref |-> o.nullDeref, touched |-> o.touched,
                             crashed |-> dies]
       ELSE bcall' = [op |-> f, ptr |-> ptr, defined |-> FALSE, ret |-> "undefined",
                      nullDeref |-> FALSE, touched |-> FALSE, crashed |-> FALSE]
    /\ UNCHANGED build

(***************************************************************************)
(*      PATCH TABLE QUERIES: PatchTable_GetPatchArray*, _GetPatchParam     *)
(***************************************************************************)

(* What a query does:                                                       *)
(*   ret        the value returned (an int, or a pointer)                   *)
(*   out        the caller's *desc or *param when the call ends             *)
(*   forwarded  the indexed calls made on the wrapped table, in order       *)
(*   nullDeref  a member call was made through a null table                 *)
QueryResult(ret, out, forwarded, nullDeref) ==
    [ret |-> ret, out |-> out, forwarded |-> forwarded, nullDeref |-> nullDeref]

\* the wrapped table's PatchParam of patch p of array a; the table's,
\* unspecified, answer when (a, p) names no patch of it
PatchParamOf(table, a, p) ==
    IF a \in 0 .. Len(table) - 1 /\ p \in 0 .. Len(table[a + 1].patches) - 1
    THEN [array |-> a, patch |-> p]
    ELSE [array |-> -1, patch |-> -1]

\* the indexed call is within the wrapped table's bounds
InTable(table, call) ==
    /\ call.arrayIndex \in 0 .. Len(table) - 1
    /\ call.method = "GetPatchParam"
        => call.patchIndex \in 0 .. Len(table[call.arrayIndex + 1].patches) - 1

Forward(method, arrayIndex, patchIndex) ==
    [method |-> method, arrayIndex |-> arrayIndex, patchIndex |-> patchIndex]

\* GetNumPatches_PatchArray that answers -1 for an index it rejects
PatchTable_GetNumPatches_PatchArray_minusOne(table, arrayIndex) ==
    IF arrayIndex < 0
    THEN QueryResult(-1, NullPtr, <<>>, FALSE)
    ELSE IF table.null
    THEN QueryResult(0, NullPtr, <<>>, TRUE)
    ELSE IF arrayIndex >= GetNumPatchArrays(table.obj)
    THEN QueryResult(-1, NullPtr, <<>>, FALSE)
    ELSE QueryResult(GetNumPatches(table.obj, arrayIndex), NullPtr,
                     << Forward("GetNumPatches", arrayIndex, 0) >>, FALSE)

PatchTable_GetNumPatches_PatchArray(table, arrayIndex) ==
    IF arrayIndex < 0
    THEN QueryResult(0, NullPtr, <<>>, FALSE)
    ELSE IF table.null
    THEN QueryResult(0, NullPtr, <<>>, TRUE)
    ELSE IF arrayIndex >= GetNumPatchArrays(table.obj)
    THEN QueryResult(0, NullPtr, <<>>, FALSE)
    ELSE QueryResult(GetNumPatches(table.obj, arrayIndex), NullPtr,
                     << Forward("GetNumPatches", arrayIndex, 0) >>, FALSE)

PatchTable_GetPatchArrayDescriptor(table, arrayIndex, descPtr) ==
    IF arrayIndex < 0
    THEN QueryResult(0, descPtr, <<>>, FALSE)
    ELSE IF table.null
    THEN QueryResult(0, descPtr, <<>>, TRUE)
    ELSE IF arrayIndex >= GetNumPatchArrays(table.obj) \/ descPtr.null
    THEN QueryResult(0, descPtr, <<>>, FALSE)
    ELSE QueryResult(0, Ptr(GetPatchArrayDescriptor(table.obj, arrayIndex)),
                     << Forward("GetPatchArrayDescriptor", arrayIndex, 0) >>, FALSE)

PatchTable_GetPatchArrayVertices(table, arrayIndex) ==
    IF arrayIndex < 0
    THEN QueryResult(NullPtr, NullPtr, <<>>, FALSE)
    ELSE IF table.null
    THEN QueryResult(NullPtr, NullPtr, <<>>, TRUE)
    ELSE IF arrayIndex >= GetNumPatchArrays(table.obj)
    THEN QueryResult(NullPtr, NullPtr, <<>>, FALSE)
    ELSE QueryResult(Ptr(GetPatchArrayVertices(table.obj, arrayIndex)), NullPtr,
                     << Forward("GetPatchArrayVertices", arrayIndex, 0) >>, FALSE)

\* `int handle = table->GetPatchArrayVertices(arrayIndex).size();`: the number
\* of control vertex indices of the array; the wrapped table's, unspecified,
\* answer (taken as 0 or as one past the largest patch index tried) when
\* arrayIndex names no array of it
VerticesSize(table, arrayIndex, unspecified) ==
    IF arrayIndex \in 0 .. Len(table) - 1
    THEN Size(GetPatchArrayVertices(table, arrayIndex))
    ELSE unspecified

PatchTable_GetPatchParam(table, arrayIndex, patchIndex, paramPtr, unspecified) ==
    IF paramPtr.null
    THEN QueryResult(0, paramPtr, <<>>, FALSE)
    ELSE IF table.null
    THEN QueryResult(0, paramPtr, <<>>, TRUE)
    ELSE LET handle == VerticesSize(table.obj, arrayIndex, unspecified)
             sized == << Forward("GetPatchArrayVertices", arrayIndex, 0) >>
         IN IF patchIndex < 0 \/ patchIndex >= handle
            THEN QueryResult(0, paramPtr, sized, FALSE)
            ELSE QueryResult(0, Ptr(PatchParamOf(table.obj, arrayIndex, patchIndex)),
                             Append(sized, Forward("GetPatchParam", arrayIndex, patchIndex)),
                             FALSE)

\* the largest number of patch arrays of a table
MaxArrayIndex ==
    CHOOSE m \in {Len(t) : t \in PatchTables} : \A t \in PatchTables : Len(t) <= m

NoQueryCall ==
    [op |-> "", tableNull |-> FALSE, arrayIndex |-> 0, patchIndex |-> 0,
     outNull |-> FALSE, ret |-> 0, forwarded |-> <<>>, nullDeref |-> FALSE,
     oob |-> FALSE, crashed |-> FALSE, descBefore |-> "", paramBefore |-> <<>>]

QueryInit ==
    /\ atable \in PatchTables
    /\ descOut = "POINTS"
    /\ paramOut = [array |-> 0, patch |-> 0]
    /\ acall = NoQueryCall

QueryInitIdle ==
    /\ atable = <<>>
    /\ descOut = ""
    /\ paramOut = <<>>
    /\ acall = NoQueryCall

\* What a query call leaves: a call that ran into undefined behaviour (a
\* null table, an index outside the wrapped table) may end the process.
AfterQuery(op, tableNull, arrayIndex, patchIndex, outNull, r) ==
    LET oob == \E k \in 1 .. Len(r.forwarded) : ~InTable(atable, r.forwarded[k])
    IN \E dies \in BOOLEAN :
        /\ dies => (r.nullDeref \/ oob)
        /\ acall' = [op |-> op, tableNull |-> tableNull, arrayIndex |-> arrayIndex,
                     patchIndex |-> patchIndex, outNull |-> outNull, ret |-> r.ret,
                     forwarded |-> r.forwarded, nullDeref |-> r.nullDeref, oob |-> oob,
                     crashed |-> dies, descBefore |-> descOut, paramBefore |-> paramOut]

TableArg(tableNull) == IF tableNull THEN NullPtr ELSE Ptr(atable)

GetNumPatchesCall(tableNull, arrayIndex) ==
    /\ acall.op = ""
    /\ AfterQuery("PatchTable_GetNumPatches_PatchArray", tableNull, arrayIndex, 0, FALSE,
                  PatchTable_GetNumPatches_PatchArray(TableArg(tableNull), arrayIndex))
    /\ UNCHANGED <<atable, descOut, paramOut>>

GetPatchArrayDescriptorCall(tableNull, arrayIndex, descNull) ==
    /\ acall.op = ""
    /\ LET r == PatchTable_GetPatchArrayDescriptor(
                    TableArg(tableNull), arrayIndex, IF descNull THEN NullPtr ELSE Ptr(descOut))
       IN /\ AfterQuery("PatchTable_GetPatchArrayDescriptor", tableNull, arrayIndex, 0,
                        descNull, r)
          /\ descOut' = IF descNull THEN descOut ELSE r.out.obj
    /\ UNCHANGED <<atable, paramOut>>

GetPatchArrayVerticesCall(tableNull, arrayIndex) ==
    /\ acall.op = ""
    /\ AfterQuery("PatchTable_GetPatchArrayVertices", tableNull, arrayIndex, 0, FALSE,
                  PatchTable_GetPatchArrayVertices(TableArg(tableNull), arrayIndex))
    /\ UNCHANGED <<atable, descOut, paramOut>>

GetPatchParamCall(tableNull, arrayIndex, patchIndex, paramNull) ==
    /\ acall.op = ""
    /\ \E unspecified \in {0, MaxPatchIndex + 2} :
        LET r == PatchTable_GetPatchParam(
                    TableArg(tableNull), arrayIndex, patchIndex,
                    IF paramNull THEN NullPtr ELSE Ptr(paramOut), unspecified)
        IN /\ AfterQuery("PatchTable_GetPatchParam", tableNull, arrayIndex, patchIndex,
                         paramNull, r)
           /\ paramOut' = IF paramNull THEN paramOut ELSE r.out.obj
    /\ UNCHANGED <<atable, descOut>>

(***************************************************************************)
(*        PATCH TABLE FACTORY OPTIONS: PatchTableFactory_Options_Set*      *)
(***************************************************************************)

\* Far::PatchTableFactory::Options as `new Options()` leaves it: the end cap
\* type is ENDCAP_GREGORY_BASIS, useInfSharpPatch is off
EndCapTypes ==
    [ENDCAP_NONE |-> 0, ENDCAP_BILINEAR_BASIS |-> 1, ENDCAP_BSPLINE_BASIS |-> 2,
     ENDCAP_GREGORY_BASIS |-> 3, ENDCAP_LEGACY_GREGORY |-> 4]

NewOptions ==
    [endCapType |-> EndCapTypes.ENDCAP_GREGORY_BASIS, useInfSharpPatch |-> FALSE]

\* Options::SetEndCapType / GetEndCapType: endCapType is a 3-bit member
SetEndCapType(options, e) == [options EXCEPT !.endCapType = e % (2 ^ 3)]
GetEndCapType(options) == options.endCapType

PatchTableFactory_Options_SetEndCapType(options, endCapType) ==
    SetEndCapType(options, endCapType)

\* a SetTriangleSubdivision that stores its argument over the end cap type
PatchTableFactory_Options_SetTriangleSubdivision_stores(options, triangleSubdivision) ==
    [options EXCEPT !.endCapType = triangleSubdivision]

\* the body is empty: both parameters are commented out
PatchTableFactory_Options_SetTriangleSubdivision(options, triangleSubdivision) ==
    options

PatchTableFactory_Options_SetUseInfSharpPatch(options, useInfSharpPatch) ==
    [options EXCEPT !.useInfSharpPatch = useInfSharpPatch]

\* the body is empty: both parameters are commented out
PatchTableFactory_Options_SetNumLegacyGregoryPatches(options, numPatches) ==
    options

\* the setter fn applied with argument arg
OptionSetter(fn, options, arg) ==
    CASE fn = "SetEndCapType" -> PatchTableFactory_Options_SetEndCapType(options, arg)
      [] fn = "SetTriangleSubdivision" ->
            PatchTableFactory_Options_SetTriangleSubdivision(options, arg)
      [] fn = "SetUseInfSharpPatch" ->
            PatchTableFactory_Options_SetUseInfSharpPatch(options, arg)
      [] fn = "SetNumLegacyGregoryPatches" ->
            PatchTableFactory_Options_SetNumLegacyGregoryPatches(options, arg)

\* the arguments tried per setter
SetterArgs ==
    [SetEndCapType |-> {EndCapTypes[n] : n \in DOMAIN EndCapTypes},
     SetTriangleSubdivision |-> {0, 1},
     SetUseInfSharpPatch |-> BOOLEAN,
     SetNumLegacyGregoryPatches |-> {0, 2}]

NoOptionCall == [op |-> "", ret |-> 0]

OptionsInit ==
    /\ opts = NewOptions
    /\ history = <<>>
    /\ ocall = NoOptionCall

\* The call PatchTableFactory_Options_<fn>(options, arg).
OptionSetCall(fn, arg) ==
    /\ Len(history) < MaxOptionCalls
    /\ opts' = OptionSetter(fn, opts, arg)
    /\ history' = Append(history, <<fn, arg>>)
    /\ ocall' = [op |-> fn, ret |-> 0]

\* The call PatchTableFactory_Options_GetEndCapType(options).
OptionGetCall ==
    /\ ocall.op # "GetEndCapType"
    /\ ocall' = [op |-> "GetEndCapType", ret |-> GetEndCapType(opts)]
    /\ UNCHANGED <<opts, history>>

(***************************************************************************)
(*        REFINER OWNERSHIP: PrimvarRefiner and its TopologyRefiner        *)
(***************************************************************************)

ObjIds == 1 .. MaxObjects

NoObject == [type |-> "", alive |-> FALSE, frees |-> 0, refiner |-> NULL]

\* `new PrimvarRefiner(*tr)`: the object keeps a reference to *tr
PrimvarRefiner_construct(type, tr) ==
    [type |-> type, alive |-> TRUE, frees |-> 0, refiner |-> tr]

\* `&pr->GetTopologyRefiner()`: the address of the object referred to
GetTopologyRefiner(obj) == obj.refiner

LiveObjects(type) == {i \in ObjIds : objs[i].type = type /\ objs[i].alive}
NextObject == Cardinality({i \in ObjIds : objs[i].type # ""}) + 1

\* the heap after the objects in freed were deleted
Release(heap, freed) ==
    [i \in ObjIds |->
        IF i \in freed
        THEN [heap[i] EXCEPT !.alive = FALSE, !.frees = @ + 1]
        ELSE heap[i]]

NoRefinerCall == [op |-> "", h |-> NULL, ret |-> NULL, libCalls |-> <<>>]

RefinerInit ==
    /\ objs = [i \in ObjIds |-> NoObject]
    /\ rlog = [passed |-> [i \in ObjIds |-> NULL], destroys |-> [i \in ObjIds |-> 0]]
    /\ rcall = NoRefinerCall

\* TopologyRefinerFactory_TopologyDescriptor_Create(descriptor, options)
RefinerCreateCall ==
    /\ NextObject \in ObjIds
    /\ LET o == TopologyRefinerFactory_TopologyDescriptor_Create
       IN /\ objs' = [objs EXCEPT ![NextObject] =
                        [type |-> o.allocs[1], alive |-> TRUE, frees |-> 0,
                         refiner |-> NULL]]
          /\ rcall' = [NoRefinerCall EXCEPT
                        !.op = "TopologyRefinerFactory_TopologyDescriptor_Create",
                        !.ret = NextObject]
    /\ UNCHANGED rlog

\* PrimvarRefiner_create(tr) on a live refiner
PrimvarCreateCall(tr) ==
    /\ NextObject \in ObjIds
    /\ LET o == PrimvarRefiner_create(tr)
       IN /\ objs' = [objs EXCEPT ![NextObject] =
                        PrimvarRefiner_construct(o.allocs[1], tr)]
          /\ rcall' = [NoRefinerCall EXCEPT !.op = "PrimvarRefiner_create", !.h = tr,
                                            !.ret = NextObject]
    /\ rlog' = [rlog EXCEPT !.passed[NextObject] = tr]

\* PrimvarRefiner_GetTopologyRefiner(pr)
GetTopologyRefinerCall(pr) ==
    /\ PrimvarRefiner_GetTopologyRefiner(pr).ret = "value"
    /\ rcall' = [NoRefinerCall EXCEPT !.op = "PrimvarRefiner_GetTopologyRefiner",
                                      !.h = pr, !.ret = GetTopologyRefiner(objs[pr])]
    /\ UNCHANGED <<objs, rlog>>

\* PrimvarRefiner_<kind>(pr, num_elements, level, src, dst): the wrapped
\* Interpolate* are const members of the PrimvarRefiner
InterpolateOnCall(pr, kind, num_elements, level) ==
    /\ objs[objs[pr].refiner].alive
    /\ LET r == PrimvarEntry(kind, pr, num_elements, level,
                             [j \in BufferIndices |-> 1], [j \in BufferIndices |-> 0])
       IN rcall' = [NoRefinerCall EXCEPT !.op = kind, !.h = pr, !.libCalls = r.libCalls]
    /\ UNCHANGED <<objs, rlog>>

\* PrimvarRefiner_destroy(pr) on a live PrimvarRefiner
PrimvarDestroyCall(pr) ==
    /\ objs' = Release(objs, PrimvarRefiner_destroy(pr).freed)
    /\ rcall' = [NoRefinerCall EXCEPT !.op = "PrimvarRefiner_destroy", !.h = pr]
    /\ UNCHANGED rlog

\* TopologyRefiner_destroy(refiner) on a live TopologyRefiner
RefinerDestroyCall(tr) ==
    /\ objs' = Release(objs, TopologyRefiner_destroy(tr).freed)
    /\ rlog' = [rlog EXCEPT !.destroys[tr] = @ + 1]
    /\ rcall' = [NoRefinerCall EXCEPT !.op = "TopologyRefiner_destroy", !.h = tr]

(***************************************************************************)
(*       TWO CONCURRENT CALLS OF StencilTable_UpdateValues ON ONE TABLE    *)
(***************************************************************************)

Threads == {"A", "B"}

\* the start and end arguments tried: from below 0 to past the last stencil
RangeBounds == -1 .. MaxStencils + 1

\* a thread about to enter StencilTable_UpdateValues(st, src, dst, start, end)
ThreadAt(start, end) ==
    [pc |-> "copySrc", start |-> start, end |-> end, srcValues |-> <<>>,
     dstValues |-> <<>>, i |-> 0, libOob |-> FALSE]

ConcurrentInit ==
    /\ ctab \in StencilTables
    /\ csrc = [i \in 0 .. GetNumControlVertices(ctab) - 1 |-> i + 1]
    /\ cdst = [i \in 0 .. GetNumStencils(ctab) - 1 |-> 50 + i]
    /\ thr \in [Threads -> {ThreadAt(start, end) : start, end \in RangeBounds}]
    /\ clog = [dstBefore |-> cdst, wrote |-> [t \in Threads |-> {}], crashed |-> FALSE]

ConcurrentInitIdle ==
    /\ ctab = MakeTable(<<>>)
    /\ csrc = <<>>
    /\ cdst = <<>>
    /\ thr = <<>>
    /\ clog = <<>>

\* The vectors are made and src is copied into srcValues.
CopySrcStep(t) ==
    /\ ~clog.crashed
    /\ thr[t].pc = "copySrc"
    /\ LET numControlVerts == GetNumControlVertices(ctab)
           numStencils == GetNumStencils(ctab)
       IN thr' = [thr EXCEPT
                    ![t].srcValues = [i \in 0 .. numControlVerts - 1 |->
                                        [FloatValue EXCEPT !.value = csrc[i]]],
                    ![t].dstValues = [i \in 0 .. numStencils - 1 |-> FloatValue],
                    ![t].pc = "update"]
    /\ UNCHANGED <<ctab, csrc, cdst, clog>>

\* `st->UpdateValues(srcValues.data(), dstValues.data(), start, end);` and the
\* two bounds of the copy-back.  An access past the end of an array is
\* undefined: the process dies there, or the call goes on with what was
\* computed.
UpdateStep(t) ==
    /\ ~clog.crashed
    /\ thr[t].pc = "update"
    /\ LET u == UpdateValues(ctab, thr[t].srcValues, thr[t].dstValues,
                             thr[t].start, thr[t].end)
       IN \E dies \in (IF u.oob THEN BOOLEAN ELSE {FALSE}) :
            /\ thr' = [thr EXCEPT
                        ![t].dstValues = IF dies THEN @ ELSE u.dstValues,
                        ![t].libOob = u.oob,
                        ![t].i = ActualStart(thr[t].start),
                        ![t].pc = IF dies THEN "dead" ELSE "copyBack"]
            /\ clog' = [clog EXCEPT !.crashed = dies]
    /\ UNCHANGED <<ctab, csrc, cdst>>

\* One round of `for (int i = actualStart; i < actualEnd; ++i) dst[i] = ...`
CopyBackStep(t) ==
    /\ ~clog.crashed
    /\ thr[t].pc = "copyBack"
    /\ IF thr[t].i < ActualEnd(thr[t].end, GetNumStencils(ctab))
       THEN /\ cdst' = [cdst EXCEPT ![thr[t].i] = thr[t].dstValues[thr[t].i].value]
            /\ thr' = [thr EXCEPT ![t].i = @ + 1]
            /\ clog' = [clog EXCEPT !.wrote[t] = @ \cup {thr[t].i}]
       ELSE /\ thr' = [thr EXCEPT ![t].pc = "done"]
            /\ UNCHANGED <<cdst, clog>>
    /\ UNCHANGED <<ctab, csrc>>

(***************************************************************************)
(*                     PATCH MAP: PatchMap_FindPatch                       *)
(***************************************************************************)

\* The wrapped PatchMap::FindPatch(faceid, u, v): the handle of the patch of
\* the face that holds (u, v), null for a face the map has no patch for.  A
\* map holds per face the patch indices of its two halves in u (-1: none).
FindPatch(map, faceid, u, v) ==
    IF faceid \notin DOMAIN map
    THEN NullPtr
    ELSE LET patch == map[faceid][IF u < 1 THEN 1 ELSE 2]
         IN IF patch < 0 THEN NullPtr ELSE Ptr([patchIndex |-> patch])

\* The wrapped PatchParam::Normalize(u, v) of a quad patch: it maps the two
\* floats it is given, in place, from the face's to the patch's parameters.
Normalize(param, u, v) ==
    LET fracInv == 2 ^ param.depth
    IN [u |-> u * fracInv - param.u, v |-> v * fracInv - param.v]

\* `PatchParam param;` : the struct has no constructor, its fields hold
\* whatever the stack held
UninitializedParams ==
    {[depth |-> d, u |-> pu, v |-> pv] : d \in 0 .. MaxDepth, pu \in 0 .. MaxDepth, pv \in {0}}

OutLocations == {"patchIndex", "patchU", "patchV"}

(* PatchMap_FindPatch(map, faceIndex, u, v, patchIndex, patchU, patchV):    *)
(* out is what the three locations hold, passed the locations whose         *)
(* pointer is not null, param the value the local PatchParam happens to     *)
(* have.  The arguments u and v are used for the lookup only.               *)
PatchMap_FindPatch(map, faceIndex, u, v, out, passed, param) ==
    IF map.null \/ passed # OutLocations
    THEN [ret |-> FALSE, out |-> out]
    ELSE LET handle == FindPatch(map.obj, faceIndex, u, v)
         IN IF handle.null
            THEN [ret |-> FALSE, out |-> out]
            ELSE LET n == Normalize(param, out.patchU, out.patchV)
                 IN [ret |-> TRUE,
                     out |-> [patchIndex |-> handle.obj.patchIndex,
                              patchU |-> n.u, patchV |-> n.v]]

Runs == {"first", "second"}
Faces == 0 .. MaxFaces - 1
PatchMaps == [Faces -> {<<-1, -1>>, <<0, 1>>, <<2, 2>>}]
PriorContents == [patchIndex : {-7, 1}, patchU : {0, 3}, patchV : {0, 5}]
Coordinates == {0, 1}
PassedLocations == {OutLocations} \cup {OutLocations \ {l} : l \in OutLocations}

NoFindCall ==
    [op |-> "", mapNull |-> FALSE, faceIndex |-> 0, u |-> 0, v |-> 0, passed |-> {},
     ret |-> [r \in Runs |-> FALSE], before |-> <<>>]

FindPatchInit ==
    /\ fmap \in PatchMaps
    /\ outs \in [Runs -> PriorContents]
    /\ fcall = NoFindCall

FindPatchInitIdle ==
    /\ fmap = <<>>
    /\ outs = <<>>
    /\ fcall = NoFindCall

\* The same call PatchMap_FindPatch(map, faceIndex, u, v, &patchIndex,
\* &patchU, &patchV) in both runs, on the locations of each run; the value of
\* the uninitialised PatchParam is each run's own.
FindPatchCall(mapNull, faceIndex, u, v, passed) ==
    /\ fcall.op = ""
    /\ \E params \in [Runs -> UninitializedParams] :
        LET r == [run \in Runs |->
                    PatchMap_FindPatch(IF mapNull THEN NullPtr ELSE Ptr(fmap),
                                       faceIndex, u, v, outs[run], passed, params[run])]
        IN /\ outs' = [run \in Runs |-> r[run].out]
           /\ fcall' = [op |-> "PatchMap_FindPatch", mapNull |-> mapNull,
                        faceIndex |-> faceIndex, u |-> u, v |-> v, passed |-> passed,
                        ret |-> [run \in Runs |-> r[run].ret], before |-> outs]
    /\ UNCHANGED fmap

(***************************************************************************)
(*   BFR SURFACE: Bfr_Surface_GetControlPointIndices, _GatherPatchPoints   *)
(***************************************************************************)

\* A Bfr::Surface<float>: whether it is valid, the indices of its control
\* points, the number of its patch points (the control points first).
Surface(valid, cvs, numPatchPoints) ==
    [valid |-> valid, cvs |-> Arr(cvs), numPatchPoints |-> numPatchPoints]
Surface_GetNumControlPoints(surface) == Size(surface.cvs)
Surface_GetNumPatchPoints(surface) == surface.numPatchPoints

\* `memcpy(out, from, n * sizeof ...)` into a buffer: the entries of out it
\* sets, the number of entries it writes, and whether it writes past out's end
Memcpy(out, from, n) ==
    [out |-> [i \in DOMAIN out |-> IF i < n THEN from[i] ELSE out[i]],
     written |-> n,
     oob |-> n > Size(out)]

NoWrite(ret, out) == [ret |-> ret, out |-> out, written |-> 0, oob |-> FALSE]

\* The wrapped Surface::GetControlPointIndices(out): it copies all the
\* surface's control point indices to out and returns their number.
Surface_GetControlPointIndices(surface, out) ==
    LET m == Memcpy(out, surface.cvs, Surface_GetNumControlPoints(surface))
    IN [ret |-> Surface_GetNumControlPoints(surface), out |-> m.out,
        written |-> m.written, oob |-> m.oob]

\* Bfr_Surface_GetControlPointIndices(surface, out_indices, max_count)
Bfr_Surface_GetControlPointIndices(surface, out_indices, max_count) ==
    IF surface.null \/ out_indices.null \/ max_count <= 0
    THEN NoWrite(0, out_indices)
    ELSE LET r == Surface_GetControlPointIndices(surface.obj, out_indices.obj)
         IN [r EXCEPT !.out = Ptr(r.out)]

\* The wrapped Surface::PreparePatchPoints(mesh_points, mesh_desc,
\* patch_points, patch_desc) with 3 floats a point: the control points are
\* gathered from the mesh by index and stride, every further patch point is
\* a combination of them (here their sum).
RECURSIVE ControlPointSum(_, _, _, _, _)
ControlPointSum(surface, mesh_points, mesh_stride, c, k) ==
    IF k = 0
    THEN 0
    ELSE ControlPointSum(surface, mesh_points, mesh_stride, c, k - 1)
            + mesh_points[surface.cvs[k - 1] * mesh_stride + c]

PreparePatchPoints(surface, mesh_points, mesh_stride) ==
    LET numCVs == Surface_GetNumControlPoints(surface)
        cp(k, c) == mesh_points[surface.cvs[k] * mesh_stride + c]
        cpSum(c) == ControlPointSum(surface, mesh_points, mesh_stride, c, numCVs)
    IN [j \in 0 .. 3 * Surface_GetNumPatchPoints(surface) - 1 |->
            IF j \div 3 < numCVs THEN cp(j \div 3, j % 3) ELSE cpSum(j % 3)]

\* Bfr_Surface_GatherPatchPoints(surface, mesh_points, mesh_stride,
\* out_patch_points, max_points)
Bfr_Surface_GatherPatchPoints(surface, mesh_points, mesh_stride, out_patch_points, max_points) ==
    IF surface.null \/ mesh_points.null \/ out_patch_points.null
    THEN NoWrite(FALSE, out_patch_points)
    ELSE IF ~surface.obj.valid
    THEN NoWrite(FALSE, out_patch_points)
    ELSE LET num_patch_pts == Surface_GetNumPatchPoints(surface.obj)
         IN IF num_patch_pts > max_points
            THEN NoWrite(FALSE, out_patch_points)
            ELSE LET patch_points == PreparePatchPoints(surface.obj, mesh_points.obj,
                                                        mesh_stride)
                     m == Memcpy(out_patch_points.obj, patch_points, Size(patch_points))
                 IN [ret |-> TRUE, out |-> Ptr(m.out), written |-> m.written,
                     oob |-> m.oob]

\* The surfaces tried: one not initialised, one whose patch points are its
\* control points, one with patch points beyond them.
Surfaces ==
    { Surface(FALSE, <<>>, 0),
      Surface(TRUE, <<2, 0, 1>>, 3),
      Surface(TRUE, <<1, 2>>, 4) }
MeshStrides == {3, 4}
MeshPoints == [j \in 0 .. 11 |-> 10 + j]
Capacities == -1 .. MaxCapacity

\* the caller's buffer of n entries (none for n <= 0), not yet written
Buffer(n) == [i \in 0 .. n - 1 |-> 99]

NoSurfaceCall ==
    [op |-> "", surfaceNull |-> FALSE, outNull |-> FALSE, meshNull |-> FALSE,
     capacity |-> 0, ret |-> 0, written |-> 0, oob |-> FALSE, crashed |-> FALSE]

SurfaceInit ==
    /\ bsurf \in Surfaces
    /\ bout = Buffer(0)
    /\ gcall = NoSurfaceCall

SurfaceInitIdle ==
    /\ bsurf = <<>>
    /\ bout = <<>>
    /\ gcall = NoSurfaceCall

\* what is left after a call that returned r on the buffer before: a write
\* past the buffer's end is undefined, the process dies there or goes on
AfterSurfaceCall(op, r, before, surfaceNull, outNull, meshNull, capacity) ==
    \E dies \in (IF r.oob THEN BOOLEAN ELSE {FALSE}) :
        /\ bout' = IF outNull THEN before ELSE r.out.obj
        /\ gcall' = [op |-> op, surfaceNull |-> surfaceNull, outNull |-> outNull,
                     meshNull |-> meshNull, capacity |-> capacity, ret |-> r.ret,
                     written |-> r.written, oob |-> r.oob, crashed |-> dies]
        /\ UNCHANGED bsurf

\* The call Bfr_Surface_GetControlPointIndices(surface, out_indices,
\* max_count) with a buffer of max_count entries.
GetControlPointIndicesCall(surfaceNull, outNull, max_count) ==
    /\ gcall.op = ""
    /\ LET before == Buffer(max_count)
           r == Bfr_Surface_GetControlPointIndices(
                    IF surfaceNull THEN NullPtr ELSE Ptr(bsurf),
                    IF outNull THEN NullPtr ELSE Ptr(before), max_count)
       IN AfterSurfaceCall("Bfr_Surface_GetControlPointIndices", r, before,
                           surfaceNull, outNull, FALSE, max_count)

\* The call Bfr_Surface_GatherPatchPoints(surface, mesh_points, mesh_stride,
\* out_patch_points, max_points) with a buffer of max_points * 3 floats.
GatherPatchPointsCall(surfaceNull, meshNull, mesh_stride, outNull, max_points) ==
    /\ gcall.op = ""
    /\ LET before == Buffer(max_points * 3)
           r == Bfr_Surface_GatherPatchPoints(
                    IF surfaceNull THEN NullPtr ELSE Ptr(bsurf),
                    IF meshNull THEN NullPtr ELSE Ptr(MeshPoints), mesh_stride,
                    IF outNull THEN NullPtr ELSE Ptr(before), max_points)
       IN AfterSurfaceCall("Bfr_Surface_GatherPatchPoints", r, before,
                           surfaceNull, outNull, meshNull, max_points)

(***************************************************************************)
(*                            SPECIFICATIONS                               *)
(***************************************************************************)

\* A specification of component c holds every other component at its idle
\* initial value: the shim functions share no state across components.
Idle(c) ==
    /\ IF c = "handles" THEN TRUE ELSE HandlesInit
    /\ IF c \in {"handles", "backend"} THEN TRUE ELSE hasOpenCL = FALSE
    /\ IF c = "stencil" THEN TRUE ELSE StencilInitIdle
    /\ IF c = "primvar" THEN TRUE ELSE PrimvarInitIdle
    /\ IF c = "patch" THEN TRUE ELSE PatchInitIdle
    /\ IF c = "limit" THEN TRUE ELSE LimitInit
    /\ IF c = "backend" THEN TRUE ELSE BackendInitIdle
    /\ IF c = "patchtable" THEN TRUE ELSE QueryInitIdle
    /\ IF c = "options" THEN TRUE ELSE OptionsInit
    /\ IF c = "refiner" THEN TRUE ELSE RefinerInit
    /\ IF c = "concurrent" THEN TRUE ELSE ConcurrentInitIdle
    /\ IF c = "findpatch" THEN TRUE ELSE FindPatchInitIdle
    /\ IF c = "surface" THEN TRUE ELSE SurfaceInitIdle

Frame(c) ==
    /\ IF c = "handles" THEN TRUE ELSE UNCHANGED hvars
    /\ IF c = "stencil" THEN TRUE ELSE UNCHANGED svars
    /\ IF c = "primvar" THEN TRUE ELSE UNCHANGED pvars
    /\ IF c = "patch" THEN TRUE ELSE UNCHANGED evars
    /\ IF c = "limit" THEN TRUE ELSE UNCHANGED lvars
    /\ IF c = "backend" THEN TRUE ELSE UNCHANGED bvars
    /\ IF c = "patchtable" THEN TRUE ELSE UNCHANGED avars
    /\ IF c = "options" THEN TRUE ELSE UNCHANGED ovars
    /\ IF c = "refiner" THEN TRUE ELSE UNCHANGED rvars
    /\ IF c = "concurrent" THEN TRUE ELSE UNCHANGED cvars
    /\ IF c = "findpatch" THEN TRUE ELSE UNCHANGED fvars
    /\ IF c = "surface" THEN TRUE ELSE UNCHANGED gvars

InitHandles == HandlesInit /\ Idle("handles")

NextHandles ==
    \/ (CreateCall /\ Frame("handles"))
    \/ (AccessorCall /\ Frame("handles"))
    \/ (DestroyCall /\ Frame("handles"))

SpecHandles == InitHandles /\ [][NextHandles]_vars

InitStencil == StencilInit /\ Idle("stencil")

NextStencil ==
    \E start \in -2 .. MaxStencils + 1 : \E end \in -2 .. MaxStencils + 1 :
        UpdateValuesCall(start, end) /\ Frame("stencil")

SpecStencil == InitStencil /\ [][NextStencil]_vars

InitPrimvar == PrimvarInit /\ Idle("primvar")

NextPrimvar ==
    \E kind \in InterpolateKinds : \E pr \in {NULL, 1} :
        \E num_elements \in -1 .. MaxWidth + 2 : \E level \in 1 .. MaxLevel :
            InterpolateCall(kind, pr, num_elements, level)
                /\ Frame("primvar")

SpecPrimvar == InitPrimvar /\ [][NextPrimvar]_vars

InitPatch == PatchInit /\ Idle("patch")

NextPatch ==
    \/ \E tableNull \in BOOLEAN : \E patchIndex \in -1 .. MaxPatchIndex :
        \E uv \in Params : \E ptrs \in SUBSET WeightNames :
            EvaluateBasisCall(tableNull, patchIndex, uv, ptrs)
                /\ Frame("patch")
    \/ \E tableNull \in BOOLEAN : \E patchIndex \in -1 .. MaxPatchIndex :
        \E uv \in Params : \E cpNull \in BOOLEAN : \E resultNull \in BOOLEAN :
            EvaluatePointCall(tableNull, patchIndex, uv, cpNull, resultNull)
                /\ Frame("patch")

SpecPatch == InitPatch /\ [][NextPatch]_vars

InitLimit == LimitInit /\ Idle("limit")

NextLimit ==
    \E refiner \in {NULL, 1} : \E num_arrays \in 0 .. Size(LocationDescs) :
        \E options_bitfield \in Bitfields : \E fvar_channel \in FvarChannels :
            LimitCreateCall(refiner, num_arrays, options_bitfield, fvar_channel)
                /\ Frame("limit")

SpecLimit == InitLimit /\ [][NextLimit]_vars

InitBackend == BackendInit /\ Idle("backend")

NextBackend ==
    \E f \in DOMAIN BackendOf : \E ptr \in {NULL, 1} :
        BackendCall(f, ptr) /\ Frame("backend")

SpecBackend == InitBackend /\ [][NextBackend]_vars

InitPatchTable == QueryInit /\ Idle("patchtable")

NextPatchTable ==
    \/ \E tableNull \in BOOLEAN : \E arrayIndex \in -1 .. MaxArrayIndex + 1 :
            GetNumPatchesCall(tableNull, arrayIndex) /\ Frame("patchtable")
    \/ \E tableNull \in BOOLEAN : \E arrayIndex \in -1 .. MaxArrayIndex + 1 :
        \E descNull \in BOOLEAN :
            GetPatchArrayDescriptorCall(tableNull, arrayIndex, descNull)
                /\ Frame("patchtable")
    \/ \E tableNull \in BOOLEAN : \E arrayIndex \in -1 .. MaxArrayIndex + 1 :
            GetPatchArrayVerticesCall(tableNull, arrayIndex) /\ Frame("patchtable")
    \/ \E tableNull \in BOOLEAN : \E arrayIndex \in -1 .. MaxArrayIndex + 1 :
        \E patchIndex \in -1 .. MaxPatchIndex + 1 : \E paramNull \in BOOLEAN :
            GetPatchParamCall(tableNull, arrayIndex, patchIndex, paramNull)
                /\ Frame("patchtable")

SpecPatchTable == InitPatchTable /\ [][NextPatchTable]_vars

InitOptions == OptionsInit /\ Idle("options")

NextOptions ==
    \/ \E fn \in DOMAIN SetterArgs : \E arg \in SetterArgs[fn] :
            OptionSetCall(fn, arg) /\ Frame("options")
    \/ OptionGetCall /\ Frame("options")

SpecOptions == InitOptions /\ [][NextOptions]_vars

InitRefiner == RefinerInit /\ Idle("refiner")

NextRefiner ==
    \/ RefinerCreateCall /\ Frame("refiner")
    \/ \E tr \in LiveObjects("TopologyRefiner") :
            PrimvarCreateCall(tr) /\ Frame("refiner")
    \/ \E pr \in LiveObjects("PrimvarRefiner") :
            GetTopologyRefinerCall(pr) /\ Frame("refiner")
    \/ \E pr \in LiveObjects("PrimvarRefiner") : \E kind \in InterpolateKinds :
        \E num_elements \in 1 .. MaxWidth : \E level \in 1 .. MaxLevel :
            InterpolateOnCall(pr, kind, num_elements, level) /\ Frame("refiner")
    \/ \E pr \in LiveObjects("PrimvarRefiner") :
            PrimvarDestroyCall(pr) /\ Frame("refiner")
    \/ \E tr \in LiveObjects("TopologyRefiner") :
            RefinerDestroyCall(tr) /\ Frame("refiner")

SpecRefiner == InitRefiner /\ [][NextRefiner]_vars

InitConcurrent == ConcurrentInit /\ Idle("concurrent")

NextConcurrent ==
    \/ \E t \in Threads : CopySrcStep(t) /\ Frame("concurrent")
    \/ \E t \in Threads : UpdateStep(t) /\ Frame("concurrent")
    \/ \E t \in Threads : CopyBackStep(t) /\ Frame("concurrent")

SpecConcurrent == InitConcurrent /\ [][NextConcurrent]_vars

InitFindPatch == FindPatchInit /\ Idle("findpatch")

NextFindPatch ==
    \E mapNull \in BOOLEAN : \E faceIndex \in -1 .. MaxFaces :
    \E u \in Coordinates : \E v \in Coordinates : \E passed \in PassedLocations :
        FindPatchCall(mapNull, faceIndex, u, v, passed) /\ Frame("findpatch")

SpecFindPatch == InitFindPatch /\ [][NextFindPatch]_vars

InitSurface == SurfaceInit /\ Idle("surface")

NextSurface ==
    \/ \E surfaceNull \in BOOLEAN : \E outNull \in BOOLEAN : \E max_count \in Capacities :
            GetControlPointIndicesCall(surfaceNull, outNull, max_count) /\ Frame("surface")
    \/ \E surfaceNull \in BOOLEAN : \E meshNull \in BOOLEAN : \E outNull \in BOOLEAN :
       \E mesh_stride \in MeshStrides : \E max_points \in Capacities :
            GatherPatchPointsCall(surfaceNull, meshNull, mesh_stride, outNull, max_points)
                /\ Frame("surface")

SpecSurface == InitSurface /\ [][NextSurface]_vars

(***************************************************************************)
(*                               CLAIMS                                    *)
(***************************************************************************)

\* The sentinels of the shim: nullptr, false, 0, and returning nothing.
Sentinels == {"null", "false", "0", "void"}

\* C1: every accessor and destructor that takes an object handle, called
\* with a null handle, returns its sentinel (null / false / 0) or does
\* nothing, and never dereferences the null handle.
C1_NullHandleGivesSentinel ==
    (hcall.fn \in (DOMAIN Accessors \cup DOMAIN Destroys) /\ hcall.h = NULL)
        => (~hcall.nullDeref /\ hcall.ret \in Sentinels)

\* C2: every destroy/delete function called with a null handle is a no-op:
\* the step that makes the call frees nothing, dereferences nothing, and
\* leaves the heap and the process as they were, however often it is
\* repeated.
C2_DestroyNullIsNoOp ==
    [][(hcall'.fn \in DOMAIN Destroys /\ hcall'.h = NULL)
          => /\ ~hcall'.nullDeref
             /\ hcall'.ret = "void"
             /\ live' = live
             /\ freeCount' = freeCount
             /\ typeOf' = typeOf
             /\ ptrOf' = ptrOf
             /\ crashed' = crashed]_vars

\* C2's case: Bfr_SurfaceFactory_Destroy(nullptr) was called while a factory
\* wrapper and its inner factory were live, and both still are.
C2_Witness ==
    /\ hcall.fn = "Bfr_SurfaceFactory_Destroy"
    /\ hcall.h = NULL
    /\ \E i \in live : typeOf[i] = "Bfr_SurfaceFactory_f" /\ ptrOf[i] \in live

\* The sum of f over a finite set of indices.
RECURSIVE SumOver(_, _)
SumOver(f, S) ==
    IF S = {} THEN 0 ELSE LET x == CHOOSE y \in S : TRUE IN f[x] + SumOver(f, S \ {x})

\* Stencil i applied to the source values s: the sum over the stencil's
\* entries of weight * s[control index].
StencilSum(t, s, i) ==
    LET entries == t.offsets[i] .. t.offsets[i] + t.sizes[i] - 1
    IN SumOver([k \in entries |-> t.weights[k] * s[t.indices[k]]], entries)

C4_ClampedRangeUpdate ==
    LET n == GetNumStencils(st)
        lo == IF scall.start < 0 THEN 0 ELSE IF scall.start > n THEN n ELSE scall.start
        hi == IF scall.end < 0 \/ scall.end > n THEN n ELSE scall.end
    IN scall.op = "UpdateValues"
        => /\ ~scall.oob
           /\ ~scall.crashed
           /\ \A i \in 0 .. n - 1 :
                dst[i] = IF lo <= i /\ i < hi
                         THEN StencilSum(st, src, i)
                         ELSE scall.dstBefore[i]

\* C5: each PrimvarRefiner_Interpolate* entry point called with a
\* num_elements outside {1,2,3,4} does not return: it prints the invalid
\* size and terminates the process, makes no call of the wrapped
\* interpolation and leaves dst as it was (whatever pr is).
C5_InvalidNumElementsTerminates ==
    (pcall.op \in InterpolateKinds /\ pcall.num_elements \notin 1 .. MaxWidth)
        => /\ pcall.terminated
           /\ ~pcall.returned
           /\ pcall.printed = <<"Invalid num elements for", pcall.op, pcall.num_elements>>
           /\ pcall.libCalls = <<>>
           /\ ~pcall.nullDeref
           /\ pdst = pcall.dstBefore

\* PrimvarRefiner_InterpolateFaceVarying(pr, 5, ...) has terminated the process.
C5_Witness ==
    /\ pcall.op = "InterpolateFaceVarying"
    /\ pcall.num_elements = MaxWidth + 1
    /\ pcall.pr # NULL
    /\ pcall.terminated

\* component k of the weighted sum of the source elements of one destination
RECURSIVE WeightedComponentSum(_, _, _, _)
WeightedComponentSum(buf, n, k, contribs) ==
    IF contribs = <<>>
    THEN 0
    ELSE Head(contribs)[2] * buf[Head(contribs)[1] * n + k]
            + WeightedComponentSum(buf, n, k, Tail(contribs))

\* C6: each PrimvarRefiner_Interpolate* entry point called on a refiner with
\* num_elements = n in {1,2,3,4} returns after exactly one call of the
\* matching wrapped interpolation, at the given level and over values of
\* width n; component k of destination element e is then the weighted sum of
\* component k of the contributing source elements, and no other float of
\* dst is written.
C6_InterpolateIsWeightedSum ==
    (pcall.op \in InterpolateKinds /\ pcall.num_elements \in 1 .. MaxWidth
            /\ pcall.pr # NULL)
        => LET n == pcall.num_elements
               stencils == Contributions(pcall.op, pcall.level)
           IN /\ pcall.returned
              /\ ~pcall.terminated
              /\ pcall.libCalls =
                    << [kind |-> pcall.op, level |-> pcall.level, width |-> n] >>
              /\ \A j \in DOMAIN pdst :
                    pdst[j] = IF j < Len(stencils) * n
                              THEN WeightedComponentSum(psrc, n, j % n,
                                                        stencils[(j \div n) + 1])
                              ELSE pcall.dstBefore[j]

\* PrimvarRefiner_Interpolate(pr, 3, 2, src, dst) with source elements whose
\* components differ has written dst element 0 = src0 + 2 * src1 per component.
C6_Witness ==
    /\ pcall.op = "Interpolate"
    /\ pcall.num_elements = 3
    /\ pcall.level = 2
    /\ pcall.pr # NULL
    /\ psrc[0] # psrc[1]
    /\ psrc[3] # psrc[4]
    /\ pdst[0] = psrc[0] + 2 * psrc[3]
    /\ pdst[1] = psrc[1] + 2 * psrc[4]
    /\ pdst[0] # pdst[1]

\* the patch array (1-based) holding patch p of the table, and the patch's
\* control vertex indices
ArrayOfPatch(table, p) ==
    CHOOSE a \in 1 .. Len(table) :
        LET before == GetNumPatchesTotal(SubSeq(table, 1, a - 1))
        IN before <= p /\ p < before + Len(table[a].patches)

PatchCVs(table, p) ==
    LET a == ArrayOfPatch(table, p)
    IN table[a].patches[p - GetNumPatchesTotal(SubSeq(table, 1, a - 1)) + 1]

ValidPatch == ~ecall.tableNull /\ ecall.patchIndex \in 0 .. GetNumPatchesTotal(ptable) - 1
RegularPatch == ValidPatch /\ ptable[ArrayOfPatch(ptable, ecall.patchIndex)].type = "REGULAR"

RECURSIVE FloatSum(_, _)
FloatSum(w, n) == IF n = 0 THEN Float(0, 1) ELSE FloatAdd(FloatSum(w, n - 1), w[n - 1])

\* C7: PatchTable_EvaluateBasis on a valid patch index of a REGULAR patch
\* array with N control vertices returns true for every (u, v); each weight
\* array passed has its first N entries written, 1/N each in wP (summing to
\* 1) and 0 in the derivative arrays, and nothing else is written: not the
\* entries from N on, and nothing for an array passed as null.
C7_RegularBasisIsUniform ==
    (ecall.op = "PatchTable_EvaluateBasis" /\ RegularPatch)
        => LET N == Len(PatchCVs(ptable, ecall.patchIndex))
           IN /\ ecall.ret
              /\ \A name \in WeightNames : \A i \in 0 .. WeightCapacity - 1 :
                    weights[name][i] =
                        IF name \in ecall.ptrs /\ i < N
                        THEN (IF name = "wP" THEN <<1, N>> ELSE <<0, 1>>)
                        ELSE ecall.weightsBefore[name][i]
              /\ "wP" \in ecall.ptrs => FloatSum(weights["wP"], N) = <<1, 1>>
              /\ result = ecall.resultBefore

\* EvaluateBasis at (u, v) = (1, 2) on a regular patch, passed wP and wDv
\* only, wrote 16 entries of each and left wDu alone.
C7_Witness ==
    /\ ecall.op = "PatchTable_EvaluateBasis"
    /\ RegularPatch
    /\ ecall.ptrs = {"wP", "wDv"}
    /\ ecall.u = 1
    /\ ecall.ret
    /\ weights["wP"][15] = <<1, 16>>
    /\ weights["wP"][16] = ecall.weightsBefore["wP"][16]
    /\ weights["wDv"][0] = <<0, 1>>
    /\ weights["wDv"][0] # ecall.weightsBefore["wDv"][0]
    /\ weights["wDu"] = ecall.weightsBefore["wDu"]

\* C8: PatchTable_EvaluateBasis returns false and writes to none of its
\* weight arrays when the table is null, when patchIndex is outside
\* [0, total patch count), or when the patch's array is not REGULAR;
\* PatchTable_EvaluatePoint returns false in the same cases.
C8_InvalidPatchFails ==
    (ecall.op # "" /\ ~RegularPatch)
        => /\ ~ecall.ret
           /\ ecall.op = "PatchTable_EvaluateBasis" => weights = ecall.weightsBefore

\* EvaluateBasis on a patch of a QUADS array, passed all six arrays, failed.
C8_Witness ==
    /\ ecall.op = "PatchTable_EvaluateBasis"
    /\ ValidPatch
    /\ ptable[ArrayOfPatch(ptable, ecall.patchIndex)].type = "QUADS"
    /\ ecall.ptrs = WeightNames
    /\ ~ecall.ret

\* C9: PatchTable_EvaluatePoint returns false whenever some control vertex
\* index of the evaluated patch is >= numControlPoints, and every float of
\* controlPoints it reads lies in [0, 3 * numControlPoints).
C9_ControlPointIndicesChecked ==
    ecall.op = "PatchTable_EvaluatePoint"
        => /\ ecall.reads \subseteq 0 .. 3 * numControlPoints - 1
           /\ (ValidPatch /\ \E k \in DOMAIN PatchCVs(ptable, ecall.patchIndex) :
                                PatchCVs(ptable, ecall.patchIndex)[k] >= numControlPoints)
                => ~ecall.ret

\* EvaluatePoint on a regular patch whose last control vertex index is
\* numControlPoints read the earlier control points and then failed.
C9_Witness ==
    /\ ecall.op = "PatchTable_EvaluatePoint"
    /\ RegularPatch
    /\ ~ecall.cpNull
    /\ ~ecall.resultNull
    /\ LET cvs == PatchCVs(ptable, ecall.patchIndex)
       IN /\ cvs[Len(cvs)] = numControlPoints
          /\ \A k \in 1 .. Len(cvs) - 1 : cvs[k] < numControlPoints
    /\ ecall.reads # {}
    /\ ~ecall.ret

\* C10: whenever PatchTable_EvaluatePoint returns false (null argument,
\* patch index out of range, non-regular patch, or a control vertex index
\* beyond numControlPoints at any position of the patch), the caller's
\* result structure is exactly as it was before the call.
C10_FalseLeavesResultUnchanged ==
    (ecall.op = "PatchTable_EvaluatePoint" /\ ~ecall.ret)
        => result = ecall.resultBefore

\* the packing the bit-field layout prescribes: mode | d1 << 2 | d2 << 3
EncodeOptions(mode, d1, d2) == UInt(mode + d1 * 4 + d2 * 8)

\* b with every bit from bit 4 up cleared
LowFourBits(b) == [k \in DOMAIN b |-> IF k < 4 THEN b[k] ELSE 0]

\* C11: LimitStencilTableFactory_Create decodes options_bitfield b as
\* interpolationMode = b mod 4 (bits 1:0), generate1stDerivatives = bit 2,
\* generate2ndDerivatives = bit 3, and fvarChannel = the fvar_channel
\* argument; the decoded triple packed as mode | d1 << 2 | d2 << 3 is b with
\* the bits from 4 up cleared, so decoding a packed triple returns the
\* triple, and b decodes as it does with the bits from 4 up cleared.
C11_BitfieldDecoding ==
    lcall.op = "LimitStencilTableFactory_Create"
        => LET b == lcall.options_bitfield
               o == lcall.options
           IN /\ o.interpolationMode = b[0] + 2 * b[1]
              /\ o.generate1stDerivatives = b[2]
              /\ o.generate2ndDerivatives = b[3]
              /\ o.fvarChannel = lcall.fvar_channel
              /\ EncodeOptions(o.interpolationMode, o.generate1stDerivatives,
                               o.generate2ndDerivatives) = LowFourBits(b)
              /\ \A mode \in 0 .. 3 : \A d1 \in 0 .. 1 : \A d2 \in 0 .. 1 :
                    b = EncodeOptions(mode, d1, d2)
                        => /\ o.interpolationMode = mode
                           /\ o.generate1stDerivatives = d1
                           /\ o.generate2ndDerivatives = d2
              /\ o = UnpackOptions(LowFourBits(b), lcall.fvar_channel)

\* A call with all upper bits set, bits 3 and 0 clear (0xFFFFFFF6) and
\* fvar_channel 1 decoded mode 2, first derivatives on, second derivatives off.
C11_Witness ==
    /\ lcall.op = "LimitStencilTableFactory_Create"
    /\ lcall.options_bitfield = [k \in 0 .. UIntBits - 1 |-> IF k \in {0, 3} THEN 0 ELSE 1]
    /\ lcall.fvar_channel = UInt(1)
    /\ lcall.options = [interpolationMode |-> 2, generate1stDerivatives |-> 1,
                        generate2ndDerivatives |-> 0, fvarChannel |-> UInt(1)]

\* C12: for each backend (OpenCL, Metal, OMP, TBB) that is compiled out,
\* every function of the backend's surface is still defined, as a stub that
\* returns null / false / 0 or nothing and neither reads nor writes through
\* a pointer argument.
C12_CompiledOutBackendIsStub ==
    (bcall.op # "" /\ ~BackendEnabled(BackendOf[bcall.op], build))
        => /\ bcall.defined
           /\ bcall.ret \in Sentinels
           /\ ~bcall.touched
           /\ ~bcall.nullDeref

\* C13: every factory that requires a non-null input handle validates it
\* first: called with a null required handle it returns the null sentinel,
\* does not dereference the handle, and allocates nothing.
C13_FactoryValidatesHandle ==
    (hcall.fn \in DOMAIN Factories /\ Factories[hcall.fn] # "" /\ hcall.h = NULL)
        => /\ hcall.ret = "null"
           /\ ~hcall.nullDeref
           /\ hcall.obj = NULL

\* the three queries that take a patch array index only
ArrayQueries ==
    {"PatchTable_GetNumPatches_PatchArray", "PatchTable_GetPatchArrayDescriptor",
     "PatchTable_GetPatchArrayVertices"}

\* C14: on a valid patch table and an arrayIndex outside [0, number of patch
\* arrays), PatchTable_GetNumPatches_PatchArray returns 0,
\* PatchTable_GetPatchArrayVertices returns null, and
\* PatchTable_GetPatchArrayDescriptor leaves *desc unchanged; none of them
\* makes an indexed call on the wrapped table.
C14_ArrayIndexGuarded ==
    (acall.op \in ArrayQueries /\ ~acall.tableNull
            /\ acall.arrayIndex \notin 0 .. Len(atable) - 1)
        => /\ acall.forwarded = <<>>
           /\ ~acall.oob
           /\ ~acall.crashed
           /\ acall.op = "PatchTable_GetNumPatches_PatchArray" => acall.ret = 0
           /\ acall.op = "PatchTable_GetPatchArrayVertices" => acall.ret.null
           /\ descOut = acall.descBefore
           /\ paramOut = acall.paramBefore

\* PatchTable_GetNumPatches_PatchArray on a table with patch arrays, asked
\* for the array one past the last, returned 0.
C14_Witness ==
    /\ acall.op = "PatchTable_GetNumPatches_PatchArray"
    /\ ~acall.tableNull
    /\ Len(atable) > 0
    /\ acall.arrayIndex = Len(atable)
    /\ acall.ret = 0

\* C15: PatchTable_GetPatchParam queries the wrapped table and writes *param
\* only when arrayIndex is in [0, number of patch arrays) and patchIndex is
\* in [0, number of patches of that array); for every other pair it leaves
\* *param unchanged and makes no out-of-range call on the wrapped table.
C15_PatchParamGuarded ==
    (acall.op = "PatchTable_GetPatchParam" /\ ~acall.tableNull)
        => LET valid ==
                /\ acall.arrayIndex \in 0 .. Len(atable) - 1
                /\ acall.patchIndex \in
                        0 .. Len(atable[acall.arrayIndex + 1].patches) - 1
           IN ~valid => /\ paramOut = acall.paramBefore
                        /\ ~acall.oob
                        /\ \A k \in 1 .. Len(acall.forwarded) :
                                acall.forwarded[k].method # "GetPatchParam"

\* the setters the claim calls no-ops
NoOpSetters == {"SetTriangleSubdivision", "SetNumLegacyGregoryPatches"}

\* the argument of the most recent call of setter fn in calls, or dflt
RECURSIVE LastArg(_, _, _)
LastArg(calls, fn, dflt) ==
    IF calls = <<>>
    THEN dflt
    ELSE IF calls[Len(calls)][1] = fn
    THEN calls[Len(calls)][2]
    ELSE LastArg(SubSeq(calls, 1, Len(calls) - 1), fn, dflt)

\* C16: PatchTableFactory_Options_SetTriangleSubdivision and
\* _SetNumLegacyGregoryPatches are no-ops: after any sequence of option
\* setter calls on one handle, the end cap type (what GetEndCapType returns)
\* is the argument of the most recent SetEndCapType and the useInfSharpPatch
\* flag is the argument of the most recent SetUseInfSharpPatch, whichever
\* calls of the two no-op setters the sequence holds; a step that calls one
\* of the two leaves the Options object as it was.
C16_NoOpSetters ==
    /\ opts.endCapType = LastArg(history, "SetEndCapType", NewOptions.endCapType)
    /\ opts.useInfSharpPatch =
            LastArg(history, "SetUseInfSharpPatch", NewOptions.useInfSharpPatch)
    /\ ocall.op = "GetEndCapType"
            => ocall.ret = LastArg(history, "SetEndCapType", NewOptions.endCapType)

\* SetEndCapType(ENDCAP_BSPLINE_BASIS), then the two no-op setters with
\* non-zero arguments, then GetEndCapType returned ENDCAP_BSPLINE_BASIS.
C16_Witness ==
    /\ history = << <<"SetEndCapType", 2>>, <<"SetTriangleSubdivision", 1>>,
                    <<"SetNumLegacyGregoryPatches", 2>> >>
    /\ ocall = [op |-> "GetEndCapType", ret |-> 2]
    /\ opts.endCapType # NewOptions.endCapType

ScanRan ==
    /\ ValidPatch
    /\ \/ ecall.op = "PatchTable_EvaluateBasis"
       \/ ecall.op = "PatchTable_EvaluatePoint" /\ ~ecall.cpNull /\ ~ecall.resultNull

\* C18: for a patch index of the table, the scan of PatchTable_EvaluateBasis
\* and of PatchTable_EvaluatePoint runs its body at most GetNumPatchArrays
\* times and ends with a patch array and a local index within that array,
\* and the patches of the arrays before it plus the local index make the
\* patch index; patch arrays without patches do not change that.
C18_ScanFindsPatch ==
    ScanRan =>
        LET found == ecall.found
        IN /\ found.iterations \in 1 .. GetNumPatchArrays(ptable)
           /\ found.patchArray \in 0 .. GetNumPatchArrays(ptable) - 1
           /\ 0 <= found.localPatchIndex
           /\ found.localPatchIndex < GetNumPatches(ptable, found.patchArray)
           /\ GetNumPatchesTotal(SubSeq(ptable, 1, found.patchArray))
                + found.localPatchIndex = ecall.patchIndex

\* The scan passed two patch arrays without patches and found the patch in
\* the fourth array, in as many iterations as the table has arrays.
C18_Witness ==
    /\ ScanRan
    /\ ecall.op = "PatchTable_EvaluatePoint"
    /\ ecall.found.patchArray = 3
    /\ ecall.found.iterations = GetNumPatchArrays(ptable)
    /\ GetNumPatches(ptable, 1) = 0
    /\ GetNumPatches(ptable, 2) = 0

\* the sum of coordinate i of the control points the first k indices of cvs name
RECURSIVE CoordSum(_, _, _)
CoordSum(cvs, k, i) ==
    IF k = 0 THEN 0 ELSE CoordSum(cvs, k - 1, i) + controlPoints[3 * cvs[k] + i]

\* C19: when PatchTable_EvaluatePoint returns true for a patch with N control
\* vertices, result.point is, coordinate by coordinate, the sum of the
\* patch's own N control points (those its N vertex indices in its patch
\* array name) divided by N, which is their sum weighted by the basis' 1/N,
\* and du, dv, duu, duv and dvv are zero.
C19_PointIsAverage ==
    (ecall.op = "PatchTable_EvaluatePoint" /\ ecall.ret) =>
        LET cvs == PatchCVs(ptable, ecall.patchIndex)
            N == Descriptor_GetNumControlVertices(
                    ptable[ArrayOfPatch(ptable, ecall.patchIndex)].type)
        IN /\ Len(cvs) = N
           /\ \A i \in 0 .. 2 : result.point[i] = Float(CoordSum(cvs, N, i), N)
           /\ \A f \in ResultFields \ {"point"} : result[f] = Vector3(Float(0, 1))

\* The second patch of a patch array was evaluated, over control points
\* whose coordinates differ: the averages differ per coordinate and from
\* the first patch's.
C19_Witness ==
    /\ ecall.op = "PatchTable_EvaluatePoint"
    /\ ecall.ret
    /\ ecall.found.localPatchIndex = 1
    /\ result.point[0] # result.point[1]
    /\ result.point[1] # result.point[2]
    /\ result.point[0] # Float(CoordSum(PatchCVs(ptable, 0), 16, 0), 16)

\* the stencils of [start, end) clamped to the table
ClampedRange(start, end) ==
    LET n == GetNumStencils(ctab)
    IN {i \in 0 .. n - 1 :
            /\ i >= (IF start < 0 THEN 0 ELSE start)
            /\ i < (IF end < 0 \/ end > n THEN n ELSE end)}
RangeOf(t) == ClampedRange(thr[t].start, thr[t].end)

\* dst after the call of thread t, then the call of thread u, on dst d
Sequentially(t, u, d) ==
    StencilTable_UpdateValues(
        ctab, csrc,
        StencilTable_UpdateValues(ctab, csrc, d, thr[t].start, thr[t].end).dst,
        thr[u].start, thr[u].end).dst

\* no thread wrote outside its range, and when both calls are over dst is
\* what the two calls leave one after the other, in either order
InterleavingIsSequential ==
    /\ \A t \in Threads : clog.wrote[t] \subseteq RangeOf(t)
    /\ (\A t \in Threads : thr[t].pc = "done")
        => /\ cdst = Sequentially("A", "B", clog.dstBefore)
           /\ cdst = Sequentially("B", "A", clog.dstBefore)

\* C20: two concurrent StencilTable_UpdateValues calls on one table and the
\* same src and dst, with disjoint clamped ranges, run to their end as
\* defined calls (no access past an array, the process alive), write dst
\* only within their own ranges, and leave in dst what the two calls leave
\* when run one after the other, in either order.
C20_DisjointRangesCommute ==
    (RangeOf("A") \cap RangeOf("B") = {})
        => /\ ~clog.crashed
           /\ \A t \in Threads : ~thr[t].libOob
           /\ InterleavingIsSequential

\* the create/destroy pairs of C21, by the type of the handle, and the
\* types of the allocations their creates make
PairedDestroys ==
    {"Bfr_SurfaceFactory_Destroy", "Bfr_Surface_Destroy", "PatchMap_delete",
     "PatchTableFactory_Options_delete", "PrimvarRefiner_destroy"}
PairedTypes == {Destroys[f] : f \in PairedDestroys}
PairedAllocations ==
    {i \in Allocated : typeOf[i] \in PairedTypes \cup {"RefinerSurfaceFactory"}}

\* the allocations behind handle i: the object itself, and for a
\* Bfr_SurfaceFactory_f wrapper the factory its ptr member holds
AllocationsOf(i) == {i} \cup (IF typeOf[i] = "Bfr_SurfaceFactory_f" THEN {ptrOf[i]} ELSE {})

\* C21: when every handle made by one of the five creates is passed once to
\* its paired destroy and never afterwards, no allocation of a create is
\* released twice, every allocation behind a handle not yet destroyed is
\* live, every allocation behind a destroyed handle was released once, and
\* a paired destroy of a handle leaves that handle released.
C21_PairedLifetimes ==
    /\ \A i \in PairedAllocations : freeCount[i] <= 1 /\ (i \in live <=> freeCount[i] = 0)
    /\ \A i \in PairedAllocations :
        typeOf[i] \in PairedTypes
            => /\ NULL \notin AllocationsOf(i)
               /\ i \in live => AllocationsOf(i) \subseteq live
               /\ i \notin live => \A a \in AllocationsOf(i) : freeCount[a] = 1
    /\ \A i \in PairedAllocations :
        typeOf[i] = "RefinerSurfaceFactory"
            => \E w \in PairedAllocations :
                typeOf[w] = "Bfr_SurfaceFactory_f" /\ ptrOf[w] = i
    /\ (hcall.fn \in PairedDestroys /\ hcall.h # NULL) => hcall.h \notin live

\* A Bfr_SurfaceFactory_f was created and destroyed: the wrapper and the
\* factory behind it are both released once, while a second handle made
\* before the destroy is still live.
C21_Witness ==
    /\ hcall.fn = "Bfr_SurfaceFactory_Destroy"
    /\ hcall.h # NULL
    /\ typeOf[hcall.h] = "Bfr_SurfaceFactory_f"
    /\ freeCount[hcall.h] = 1
    /\ freeCount[ptrOf[hcall.h]] = 1
    /\ \E i \in live : typeOf[i] = "TopologyRefiner"

\* C22: two calls of PatchMap_FindPatch with the same map, faceIndex, u and
\* v, on output locations with whatever contents, return the same value;
\* when they return true the three locations hold the same values after
\* both; a call that returns false leaves all three locations as they were.
C22_FindPatchDeterminedByInputs ==
    fcall.op = "PatchMap_FindPatch"
        => /\ fcall.ret["first"] = fcall.ret["second"]
           /\ fcall.ret["first"] => outs["first"] = outs["second"]
           /\ \A run \in Runs : ~fcall.ret[run] => outs[run] = fcall.before[run]

\* the part of C22 that does not depend on patchU and patchV: the return
\* value and patchIndex agree, and a false return writes nothing
FindPatchIndexDetermined ==
    fcall.op = "PatchMap_FindPatch"
        => /\ fcall.ret["first"] = fcall.ret["second"]
           /\ fcall.ret["first"] => outs["first"].patchIndex = outs["second"].patchIndex
           /\ \A run \in Runs : ~fcall.ret[run] => outs[run] = fcall.before[run]

\* the entries of the caller's buffer that differ from what it held
Overwritten == {i \in DOMAIN bout : bout[i] # Buffer(Size(bout))[i]}

\* the part of C23 on Bfr_Surface_GatherPatchPoints: it writes at most
\* max_points * 3 floats, all within the buffer, and returns false having
\* written nothing when the surface has more patch points than max_points
GatherRespectsCapacity ==
    gcall.op = "Bfr_Surface_GatherPatchPoints"
        => /\ ~gcall.oob
           /\ gcall.written <= (IF gcall.capacity < 0 THEN 0 ELSE gcall.capacity * 3)
           /\ (~gcall.surfaceNull /\ Surface_GetNumPatchPoints(bsurf) > gcall.capacity)
                => (gcall.ret = FALSE /\ gcall.written = 0 /\ Overwritten = {})

\* C23: the Bfr surface output functions respect the capacity the caller
\* declares: Bfr_Surface_GetControlPointIndices writes at most max_count
\* entries of out_indices, and returns 0 having written nothing when
\* max_count <= 0 or a pointer is null; Bfr_Surface_GatherPatchPoints writes
\* at most max_points * 3 floats, and returns false having written nothing
\* when the surface has more patch points than max_points.
C23_OutputsRespectCapacity ==
    /\ gcall.op = "Bfr_Surface_GetControlPointIndices"
        => /\ ~gcall.oob
           /\ gcall.written <= (IF gcall.capacity < 0 THEN 0 ELSE gcall.capacity)
           /\ (gcall.capacity <= 0 \/ gcall.surfaceNull \/ gcall.outNull)
                => (gcall.ret = 0 /\ gcall.written = 0 /\ Overwritten = {})
    /\ GatherRespectsCapacity

====
